---- MODULE Spec2Model ----
(***************************************************************************)
(* Booking lifecycle of the spreadsheet-backed hotel assistant:           *)
(* GoogleSheetsManager.create_booking / update_booking_status and the two *)
(* availability checks (src/google_sheets.py), over the Pending Bookings  *)
(* sheet, the monthly archive sheets, the hotel sheet and the read cache. *)
(*                                                                         *)
(* Dates are day numbers; a month is DaysPerMonth consecutive days.  A    *)
(* date string that strptime("%Y-%m-%d") rejects is the value BadDate.    *)
(* Calls run one at a time (each action is one whole call); the Sheets    *)
(* API itself is taken not to fail.                                        *)
(***************************************************************************)
EXTENDS Integers, Sequences, FiniteSets, TLC

\* ---------------------------------------------------------------- bounds
MaxBookings == 2
MaxDay == 2
MaxToday == 1
DaysPerMonth == 2
MaxProbeDay == 3
MaxRanges == 2
MaxTextLen == 4
max_retries == 3
MaxAdds == 12
NumThreads == 2
MaxSweepDay == 2

Days == 0..MaxDay
BadDate == 0 - 1
DateStrs == Days \cup {BadDate}
Months == 0..(MaxDay \div DaysPerMonth)

\* ------------------------------------------------------------ input sets
RoomIds == {"R1", "R2", "R9"}
RoomTypes == {"Twin Room"}
RoomNames == {"Twin Room"}
BookingIds == {"BK1", "BK2"}
StatusArgs == {"approved", "confirmed", "rejected"}
NoteArgs == {"", "note"}
NumRoomsArgs == {1}
Phones == {"P1", "P2"}
\* the customer of the calls made on the manager directly
CustomerPhone == "P1"
None == "None"

VARIABLES
    today,      \* datetime.now().date()
    pending,    \* rows of the "Pending Bookings" worksheet
    archive,    \* month -> rows of "Bookings <Month> <Year>" (<<>>: no such sheet)
    archOrder,  \* monthly sheets in the order they were added to the spreadsheet
    hotel,      \* rows of the hotel sheet below its header
    cache,      \* GoogleSheetsManager._sheet_data_cache
    last,       \* the last call: what it returned and, when it succeeded, its arguments
    probe,      \* two date ranges and what the overlap tests answer for them
    bdcell,     \* a Booked Dates text, what it parses to and what cleanup keeps
    wa,         \* one send_whatsapp_message call and the answers of the API
    sess,       \* one Session: its history and every message added to it
    req,        \* the create_booking calls that run side by side, one per thread
    appr,       \* an update_booking_status call between finding its row and writing
    current_hour,   \* datetime.now().hour, as far as the checkout hour goes
    wk,         \* message_queue and the worker thread of process_message_async
    vs,         \* the clock, the cache timestamps and the invalidation times of the refresh check
    rl,         \* the clock and the request times kept by _rate_limit
    ag,         \* the shared agent's customer fields and the messages being processed
    sm,         \* the SessionManager: sessions in memory, the session file, the clock
    tl          \* the CreateBooking tool's check-out argument and what the tool made of it

sheetVars == <<today, pending, archive, archOrder, hotel, cache, last>>
\* what the calls on the sheets never touch
sideVars == <<probe, bdcell, wa, sess, req, appr, current_hour, wk, vs, rl, ag, sm, tl>>
vars == <<sheetVars, sideVars>>

\* ------------------------------------------------------------------ rows
HdrRow == [kind |-> "hdr", stamp |-> "Created At"]
MonthlyHdrRow == [kind |-> "hdr", stamp |-> "Approved At"]
EmptyRow == [kind |-> "empty"]
MonthRow(m) == [kind |-> "month", m |-> m]
BookingRow(id, phone, ci, co, rtype, rname, room, n, status, created, notes) ==
    [kind |-> "bk", id |-> id, phone |-> phone, ci |-> ci, co |-> co, rtype |-> rtype,
     rname |-> rname, room |-> room, n |-> n, status |-> status,
     created |-> created, notes |-> notes]

IsBk(row) == row.kind = "bk"

\* datetime.strptime(s, "%Y-%m-%d") succeeds
Parses(s) == s \in Days
\* strftime("%B") / .year of a date: the month it lies in
MonthOf(d) == d \div DaysPerMonth
\* datetime(year, month, 1)
FirstDay(m) == m * DaysPerMonth

\* ------------------------------------------------ worksheet primitives
RECURSIVE TrimTrailing(_)
\* get_all_values() stops at the last non-empty row
TrimTrailing(rows) ==
    IF rows = <<>> THEN <<>>
    ELSE IF rows[Len(rows)].kind = "empty" THEN TrimTrailing(SubSeq(rows, 1, Len(rows) - 1))
    ELSE rows

Pad(rows, n) == rows \o [i \in 1..(n - Len(rows)) |-> EmptyRow]

\* worksheet.insert_row(row, index): rows at index and below move down
InsertRow(rows, row, i) ==
    LET p == IF i - 1 > Len(rows) THEN Pad(rows, i - 1) ELSE rows
    IN  TrimTrailing(SubSeq(p, 1, i - 1) \o <<row>> \o SubSeq(p, i, Len(p)))

\* worksheet.append_row(row)
AppendRow(rows, row) == TrimTrailing(rows \o <<row>>)

\* worksheet.delete_rows(index)
DeleteRow(rows, i) ==
    IF i > Len(rows) THEN rows
    ELSE TrimTrailing(SubSeq(rows, 1, i - 1) \o SubSeq(rows, i + 1, Len(rows)))

\* ------------------------------------------- month-sectioned pending sheet
RECURSIVE FindMonthHeader(_, _, _)
\* first row whose first cell is the month header text; 0 when there is none
FindMonthHeader(rows, m, idx) ==
    IF idx > Len(rows) THEN 0
    ELSE IF rows[idx].kind = "month" /\ rows[idx].m = m THEN idx
    ELSE FindMonthHeader(rows, m, idx + 1)

RECURSIVE MonthInsertPos(_, _, _, _)
\* where a new month header goes: before the first section that is not newer
MonthInsertPos(rows, d, idx, pos) ==
    IF idx > Len(rows) THEN pos
    ELSE IF rows[idx].kind = "month"
         THEN IF d >= FirstDay(rows[idx].m) THEN idx
              ELSE MonthInsertPos(rows, d, idx + 1, idx + 1)
    ELSE MonthInsertPos(rows, d, idx + 1, pos)

\* _find_or_create_month_section: the sheet afterwards and the row it returns
FindOrCreateMonthSection(rows, d) ==
    LET found == FindMonthHeader(rows, MonthOf(d), 1)
    IN  IF found # 0 THEN [rows |-> rows, start |-> found + 2]
        ELSE
          LET pos == MonthInsertPos(rows, d, 1, 1)
              withMonth == InsertRow(rows, MonthRow(MonthOf(d)), pos)
              hasTop == Len(withMonth) > 0 /\ withMonth[1].kind = "hdr"
              withEmpty == InsertRow(withMonth, EmptyRow, pos + 1)
          IN  IF hasTop THEN [rows |-> withEmpty, start |-> pos + 2]
              ELSE [rows |-> InsertRow(withEmpty, HdrRow, 1), start |-> pos + 3]

\* the scan that settles for the first row of the section
InsertionPointAtTop(rows, d, idx, ins) == ins

RECURSIVE InsertionPoint(_, _, _, _)
\* _find_insertion_point_in_month_section, scanning from row idx
InsertionPoint(rows, d, idx, ins) ==
    IF idx > Len(rows) THEN ins
    ELSE IF rows[idx].kind = "month" THEN ins
    ELSE IF rows[idx].kind = "bk"
         THEN IF d >= rows[idx].ci THEN idx
              ELSE InsertionPoint(rows, d, idx + 1, idx + 1)
    ELSE InsertionPoint(rows, d, idx + 1, ins)

FindInsertionPointInMonthSection(rows, start, d) == InsertionPoint(rows, d, start, start)

\* _insert_booking_sorted
InsertBookingSorted(rows, row) ==
    LET r0 == IF rows = <<>> THEN AppendRow(rows, HdrRow) ELSE rows
        r1 == IF r0[1].kind # "hdr" THEN InsertRow(r0, HdrRow, 1) ELSE r0
        sec == FindOrCreateMonthSection(r1, row.ci)
        at == FindInsertionPointInMonthSection(sec.rows, sec.start, row.ci)
    IN  InsertRow(sec.rows, row, at)

\* ------------------------------------------------------------ read cache
NoEntry == [valid |-> FALSE, data |-> <<>>]
Entry(data) == [valid |-> TRUE, data |-> data]

\* read_all_data(sheet, use_cache=True): the rows returned and the cache afterwards
ReadPending(c) ==
    IF c.pending.valid THEN [data |-> c.pending.data, cache |-> c]
    ELSE [data |-> pending, cache |-> [c EXCEPT !.pending = Entry(pending)]]

ReadArchive(c, m) ==
    IF c.arch[m].valid THEN [data |-> c.arch[m].data, cache |-> c]
    ELSE [data |-> archive[m], cache |-> [c EXCEPT !.arch[m] = Entry(archive[m])]]

ReadHotel(c) ==
    IF c.hotel.valid THEN [data |-> c.hotel.data, cache |-> c]
    ELSE [data |-> hotel, cache |-> [c EXCEPT !.hotel = Entry(hotel)]]

\* _invalidate_sheet_cache(sheet_name)
InvalidatePending(c) == [c EXCEPT !.pending = NoEntry]
InvalidateHotel(c) == [c EXCEPT !.hotel = NoEntry]

\* --------------------------------------------------------- booked dates
\* _dates_overlap with the comparisons made non-strict
DatesOverlapClosed(check_in, check_out, booked_check_in, booked_check_out) ==
    check_in <= booked_check_out /\ check_out >= booked_check_in

\* _dates_overlap
DatesOverlap(check_in, check_out, booked_check_in, booked_check_out) ==
    check_in < booked_check_out /\ check_out > booked_check_in

\* the row scan's test with the comparisons made non-strict
InlineOverlapClosed(check_in_date, check_out_date, booking_check_in, booking_check_out) ==
    check_in_date <= booking_check_out /\ check_out_date >= booking_check_in

\* the overlap test written out in check_room_availability_by_date
InlineOverlap(check_in_date, check_out_date, booking_check_in, booking_check_out) ==
    check_in_date < booking_check_out /\ check_out_date > booking_check_in

\* _parse_booked_dates: the entries of the cell that are two parsable dates
WellFormed(e) == Parses(e.ci) /\ Parses(e.co)
ParseBookedDates(cell) == SelectSeq(cell, WellFormed)

\* keeps a range only when its check-out is after today
NotExpiredStrict(e) == e.co > today

\* _cleanup_expired_booked_dates
NotExpired(e) == e.co >= today
CleanupExpiredBookedDates(ranges) == SelectSeq(ranges, NotExpired)

\* ---------------------------------------------- the Booked Dates cell as text
\* A cell text is a sequence of tokens: a date as strftime("%Y-%m-%d") writes it,
\* the separator " to ", a comma, a blank, or "x" for any other run of
\* characters (a date in another format, the dash form "2026-01-25-2026-01-27").
DateTexts == <<"2026-01-10", "2026-01-11", "2026-01-12", "2026-01-13", "2026-01-14">>
Strftime(d) == DateTexts[d + 1]
TextTokens == {Strftime(d) : d \in Days} \cup {" to ", ",", " ", "x"}

\* datetime.strptime(s, "%Y-%m-%d") on a token run; BadDate for ValueError
Strptime(toks) ==
    IF Len(toks) = 1 /\ \E d \in 0..(Len(DateTexts) - 1) : DateTexts[d + 1] = toks[1]
    THEN CHOOSE d \in 0..(Len(DateTexts) - 1) : DateTexts[d + 1] = toks[1]
    ELSE BadDate

RECURSIVE Strip(_)
\* str.strip()
Strip(toks) ==
    IF toks = <<>> THEN <<>>
    ELSE IF toks[1] = " " THEN Strip(Tail(toks))
    ELSE IF toks[Len(toks)] = " " THEN Strip(SubSeq(toks, 1, Len(toks) - 1))
    ELSE toks

RECURSIVE SplitOn(_, _)
\* str.split(sep): the pieces between the separators, empty ones included
SplitOn(toks, sep) ==
    IF \A i \in 1..Len(toks) : toks[i] # sep THEN <<toks>>
    ELSE LET at == CHOOSE i \in 1..Len(toks) :
                       toks[i] = sep /\ \A j \in 1..(i - 1) : toks[j] # sep
         IN  <<SubSeq(toks, 1, at - 1)>> \o SplitOn(SubSeq(toks, at + 1, Len(toks)), sep)

\* one comma-separated piece: a one-element list, or empty when it is skipped.
\* A piece without " to " is skipped: the dash form is cut into "2026-01" and
\* "25-2026-01-27", which strptime rejects.
ParseDateRange(piece) ==
    LET date_range == Strip(piece)
        parts == SplitOn(date_range, " to ")
    IN  IF date_range = <<>> THEN <<>>
        ELSE IF \A i \in 1..Len(date_range) : date_range[i] # " to " THEN <<>>
        ELSE IF Len(parts) # 2 THEN <<>>
        ELSE IF Strptime(Strip(parts[1])) = BadDate \/ Strptime(Strip(parts[2])) = BadDate
        THEN <<>>
        ELSE <<[ci |-> Strptime(Strip(parts[1])), co |-> Strptime(Strip(parts[2]))]>>

RECURSIVE ParseRanges(_)
ParseRanges(pieces) ==
    IF pieces = <<>> THEN <<>> ELSE ParseDateRange(Head(pieces)) \o ParseRanges(Tail(pieces))

\* _parse_booked_dates on the text of a cell
ParseBookedDatesStr(booked_dates_str) ==
    IF Strip(booked_dates_str) = <<>> THEN <<>>
    ELSE ParseRanges(SplitOn(Strip(booked_dates_str), ","))

RECURSIVE FormatBookedDates(_)
\* ", ".join(f"{ci} to {co}") as update_room_booked_dates writes the cell
FormatBookedDates(ranges) ==
    IF ranges = <<>> THEN <<>>
    ELSE LET one == <<Strftime(ranges[1].ci), " to ", Strftime(ranges[1].co)>>
         IN  IF Len(ranges) = 1 THEN one
             ELSE one \o <<",", " ">> \o FormatBookedDates(Tail(ranges))

RECURSIVE SortedInsert(_, _)
\* list.sort(key=check-in) is stable: the appended range lands after equal keys
SortedInsert(ranges, e) ==
    IF ranges = <<>> THEN <<e>>
    ELSE IF ranges[Len(ranges)].ci <= e.ci THEN Append(ranges, e)
    ELSE Append(SortedInsert(SubSeq(ranges, 1, Len(ranges) - 1), e), ranges[Len(ranges)])

RECURSIVE SortByCheckIn(_)
SortByCheckIn(ranges) ==
    IF ranges = <<>> THEN <<>>
    ELSE SortedInsert(SortByCheckIn(SubSeq(ranges, 1, Len(ranges) - 1)), ranges[Len(ranges)])

RECURSIVE FindRoom(_, _, _)
\* first hotel row whose Room ID cell is room_id; 0 when there is none
FindRoom(rows, room_id, idx) ==
    IF idx > Len(rows) THEN 0
    ELSE IF rows[idx].id = room_id THEN idx
    ELSE FindRoom(rows, room_id, idx + 1)

AnyOverlap(ranges, ci, co) ==
    \E i \in 1..Len(ranges) : DatesOverlap(ci, co, ranges[i].ci, ranges[i].co)

\* ----------------------------------------------------- availability checks
ActiveStatuses == {"approved", "confirmed", "completed"}

\* the loop without the comparison of the row's Room ID with room_id
SheetConflictAnyRoom(data, isPendingSheet, room_id, ci, co) ==
    /\ Len(data) >= 2
    /\ data[1].kind = "hdr"
    /\ \E i \in 2..Len(data) :
          /\ data[i].kind = "bk"
          /\ (isPendingSheet \/ data[i].status \in ActiveStatuses)
          /\ InlineOverlap(ci, co, data[i].ci, data[i].co)

\* the loop comparing a row's date cells without parsing them first
SheetConflictUnparsed(data, isPendingSheet, room_id, ci, co) ==
    /\ Len(data) >= 2
    /\ data[1].kind = "hdr"
    /\ \E i \in 2..Len(data) :
          /\ data[i].kind = "bk"
          /\ data[i].room = room_id
          /\ (isPendingSheet \/ data[i].status \in ActiveStatuses)
          /\ InlineOverlap(ci, co, data[i].ci, data[i].co)

\* the loop over data[1:] of one booking sheet: does some row conflict?
\* A row whose dates strptime rejects is skipped (except ValueError: continue).
SheetConflict(data, isPendingSheet, room_id, ci, co) ==
    /\ Len(data) >= 2
    /\ data[1].kind = "hdr"
    /\ \E i \in 2..Len(data) :
          /\ data[i].kind = "bk"
          /\ data[i].room = room_id
          /\ (isPendingSheet \/ data[i].status \in ActiveStatuses)
          /\ Parses(data[i].ci) /\ Parses(data[i].co)
          /\ InlineOverlap(ci, co, data[i].ci, data[i].co)

RECURSIVE ScanMonthlySheets(_, _, _, _, _)
\* the monthly sheets, in discover_sheets() order, until the first conflict
ScanMonthlySheets(c, k, room_id, ci, co) ==
    IF k > Len(archOrder) THEN [ok |-> TRUE, cache |-> c]
    ELSE LET r == ReadArchive(c, archOrder[k])
         IN  IF SheetConflict(r.data, FALSE, room_id, ci, co)
             THEN [ok |-> FALSE, cache |-> r.cache]
             ELSE ScanMonthlySheets(r.cache, k + 1, room_id, ci, co)

\* check_room_availability_by_date (row scan)
CheckRoomAvailabilityByDate(c, room_id, check_in, check_out) ==
    IF ~Parses(check_in) \/ ~Parses(check_out) THEN [ok |-> FALSE, cache |-> c]
    ELSE IF check_in >= check_out THEN [ok |-> FALSE, cache |-> c]
    ELSE IF check_in < today THEN [ok |-> FALSE, cache |-> c]
    ELSE LET r == ReadPending(c)
         IN  IF SheetConflict(r.data, TRUE, room_id, check_in, check_out)
             THEN [ok |-> FALSE, cache |-> r.cache]
             ELSE ScanMonthlySheets(r.cache, 1, room_id, check_in, check_out)

\* check_room_availability_from_booked_dates_column (column check)
CheckRoomAvailabilityFromBookedDatesColumn(c, room_id, check_in, check_out) ==
    IF ~Parses(check_in) \/ ~Parses(check_out) THEN [ok |-> FALSE, cache |-> c]
    ELSE IF check_in >= check_out THEN [ok |-> FALSE, cache |-> c]
    ELSE IF check_in < today THEN [ok |-> FALSE, cache |-> c]
    ELSE LET r == ReadHotel(c)
             at == FindRoom(r.data, room_id, 1)
         IN  IF at = 0 THEN [ok |-> FALSE, cache |-> r.cache]
             ELSE [ok |-> ~AnyOverlap(CleanupExpiredBookedDates(
                                        ParseBookedDates(r.data[at].booked)),
                                      check_in, check_out),
                   cache |-> r.cache]

\* str.lower() of the names that occur, as the words they consist of
Lower(s) ==
    CASE s = "Twin Room" -> <<"twin", "room">>
      [] s = "Double Room" -> <<"double", "room">>
      [] OTHER -> <<>>

\* room_type_map.get(room_type, room_type.lower())
SearchType(room_type) ==
    CASE room_type = "Twin Room" -> <<"twin">>
      [] room_type = "Double Room" -> <<"double">>
      [] OTHER -> Lower(room_type)

\* a in b, for strings given as words
IsIn(a, b) == \E i \in 0..(Len(b) - Len(a)) : SubSeq(b, i + 1, i + Len(a)) = a

KnownTypes == {<<"twin">>, <<"double">>, <<"villa">>, <<"two", "bed", "room", "villa">>}

\* the room-type filter of get_available_rooms_by_type
TypeMatches(search, room_name) ==
    LET name == Lower(room_name)
    IN  IF ~IsIn(search, name) /\ ~IsIn(name, search)
        THEN /\ search \in KnownTypes
             /\ ~(IsIn(<<"twin">>, search) /\ ~IsIn(<<"twin">>, name))
             /\ ~(IsIn(<<"double">>, search) /\ ~IsIn(<<"double">>, name))
             /\ ~(IsIn(<<"villa">>, search) /\ ~IsIn(<<"villa">>, name))
        ELSE TRUE

\* one hotel row passes get_available_rooms_by_type's filter and Booked Dates test
RoomOffered(row, search, ci, co) ==
    /\ row.id # ""
    /\ TypeMatches(search, row.name)
    /\ ~AnyOverlap(CleanupExpiredBookedDates(ParseBookedDates(row.booked)), ci, co)

\* get_available_rooms_by_type
GetAvailableRoomsByType(c, search, check_in, check_out) ==
    IF ~Parses(check_in) \/ ~Parses(check_out) THEN [rooms |-> <<>>, cache |-> c]
    ELSE LET r == ReadHotel(c)
             Offered(row) == RoomOffered(row, search, check_in, check_out)
         IN  [rooms |-> SelectSeq(r.data, Offered), cache |-> r.cache]

\* --------------------------------------------------------- create_booking
NoCall == [op |-> "none", room |-> "", ci |-> BadDate, co |-> BadDate,
           id |-> "", ret |-> None, phone |-> ""]

\* the room the row is written for: the requested one when both checks pass,
\* else the first room get_available_rooms_by_type offers
ChosenRoom(ok, room_id, room_name, offered) ==
    IF ok THEN [id |-> room_id, name |-> room_name]
    ELSE [id |-> offered[1].id, name |-> offered[1].name]

BookingRowsOf(rows) == {i \in 1..Len(rows) : rows[i].kind = "bk"}

RECURSIVE ArchivedUpTo(_)
ArchivedUpTo(m) ==
    IF m < 0 THEN 0 ELSE Cardinality(BookingRowsOf(archive[m])) + ArchivedUpTo(m - 1)

RECURSIVE IdsArchivedUpTo(_)
IdsArchivedUpTo(m) ==
    IF m < 0 THEN {}
    ELSE {archive[m][i].id : i \in BookingRowsOf(archive[m])} \cup IdsArchivedUpTo(m - 1)

\* the Booking IDs present in the pending sheet or a monthly sheet
UsedIds ==
    {pending[i].id : i \in BookingRowsOf(pending)} \cup IdsArchivedUpTo(MaxDay \div DaysPerMonth)

\* f"BK{int(time.time() * 1000) % 1000000}": the residue may repeat one that is
\* already in the sheets; IDs are only ever compared for equality, so a residue
\* that is in no sheet is represented by the first name not in use
IdNames == <<"BK1", "BK2", "BK3">>
GeneratedIds ==
    LET used == UsedIds
        free == {j \in 1..Len(IdNames) : IdNames[j] \notin used}
    IN  used \cup {IdNames[j] : j \in {i \in free : \A k \in free : i <= k}}

\* booking rows in the pending sheet and all monthly sheets
NumBookings == Cardinality(BookingRowsOf(pending)) + ArchivedUpTo(MaxDay \div DaysPerMonth)

\* lines 434-481: the two checks, then the substitute search when either fails
CreateBookingChecksOn(c, room_id, room_type, room_name, check_in, check_out) ==
    LET byRows == CheckRoomAvailabilityByDate(c, room_id, check_in, check_out)
        byDates == CheckRoomAvailabilityFromBookedDatesColumn(
                       byRows.cache, room_id, check_in, check_out)
        ok == byRows.ok /\ byDates.ok
        avail == GetAvailableRoomsByType(byDates.cache, SearchType(room_type),
                                         check_in, check_out)
    IN  IF ok THEN [ok |-> TRUE, accepted |-> TRUE,
                    room |-> ChosenRoom(TRUE, room_id, room_name, <<>>),
                    cache |-> byDates.cache]
        ELSE IF avail.rooms = <<>>
        THEN [ok |-> FALSE, accepted |-> FALSE, room |-> [id |-> "", name |-> ""],
              cache |-> avail.cache]
        ELSE [ok |-> FALSE, accepted |-> TRUE,
              room |-> ChosenRoom(FALSE, room_id, room_name, avail.rooms),
              cache |-> avail.cache]

\* the checks as a call on the manager makes them, reading through its cache
CreateBookingChecks(room_id, room_type, room_name, check_in, check_out) ==
    CreateBookingChecksOn(cache, room_id, room_type, room_name, check_in, check_out)

\* create_booking when the manager's cache holds c
CreateBookingFrom(c, phone, room_id, room_type, room_name, check_in, check_out, num_rooms) ==
    \E chk \in {CreateBookingChecksOn(c, room_id, room_type, room_name, check_in, check_out)} :
    LET call == [NoCall EXCEPT !.op = "create"]
    IN  /\ UNCHANGED sideVars
        /\ IF ~chk.accepted
           THEN /\ cache' = chk.cache
                /\ last' = call
                /\ UNCHANGED <<today, pending, archive, archOrder, hotel>>
           ELSE /\ NumBookings < MaxBookings
                /\ \E booking_id \in GeneratedIds :
                  LET row == BookingRow(booking_id, phone, check_in, check_out, room_type,
                                        chk.room.name, chk.room.id, num_rooms, "pending",
                                        today, "")
                  IN  /\ pending' = InsertBookingSorted(pending, row)
                      /\ cache' = InvalidatePending(chk.cache)
                      /\ last' = [call EXCEPT !.ret = booking_id, !.room = room_id,
                                                !.ci = check_in, !.co = check_out,
                                                !.phone = phone]
                      /\ UNCHANGED <<today, archive, archOrder, hotel>>

CreateBooking(room_id, room_type, room_name, check_in, check_out, num_rooms) ==
    CreateBookingFrom(cache, CustomerPhone, room_id, room_type, room_name,
                      check_in, check_out, num_rooms)

\* ------------------------------------- the CreateBooking tool of the agent
RECURSIVE FindDuplicateAnyStatus(_, _, _, _, _)
\* the duplicate scan without its status test
FindDuplicateAnyStatus(rows, phone, room_type, check_in, idx) ==
    IF idx > Len(rows) THEN 0
    ELSE IF /\ rows[idx].kind = "bk"
            /\ rows[idx].phone = phone
            /\ Lower(rows[idx].rtype) = Lower(room_type)
            /\ rows[idx].ci = check_in
         THEN idx
    ELSE FindDuplicateAnyStatus(rows, phone, room_type, check_in, idx + 1)

RECURSIVE FindDuplicate(_, _, _, _, _)
\* the duplicate scan over bookings_data[1:]: the first row with the caller's
\* phone, room type (compared in lower case), check-in and status pending
FindDuplicate(rows, phone, room_type, check_in, idx) ==
    IF idx > Len(rows) THEN 0
    ELSE IF /\ rows[idx].kind = "bk"
            /\ rows[idx].phone = phone
            /\ Lower(rows[idx].rtype) = Lower(room_type)
            /\ rows[idx].ci = check_in
            /\ rows[idx].status = "pending"
         THEN idx
    ELSE FindDuplicate(rows, phone, room_type, check_in, idx + 1)

\* what the tool does before it calls create_booking, for dates it has already
\* brought to YYYY-MM-DD and the room the retriever's first result names
\* (room_id "" when that result carries no Room ID)
ToolChecks(phone, room_type, check_in, check_out, room_id) ==
    LET structure == ReadHotel(cache)
        bookings_data == ReadPending(structure.cache)
        dup == IF Len(bookings_data.data) > 1 /\ bookings_data.data[1].kind = "hdr"
               THEN FindDuplicate(bookings_data.data, phone, room_type, check_in, 2)
               ELSE 0
        pre == IF room_id # ""
               THEN CheckRoomAvailabilityByDate(bookings_data.cache, room_id,
                                                check_in, check_out)
               ELSE [ok |-> TRUE, cache |-> bookings_data.cache]
        room_info == IF room_id # "" THEN ReadHotel(pre.cache).cache ELSE pre.cache
    IN  IF dup # 0
        THEN [outcome |-> "duplicate", id |-> bookings_data.data[dup].id,
              cache |-> bookings_data.cache]
        ELSE IF ~pre.ok THEN [outcome |-> "unavailable", id |-> None, cache |-> pre.cache]
        ELSE IF check_in >= check_out \/ check_in < today
        THEN [outcome |-> "invalid", id |-> None, cache |-> pre.cache]
        ELSE [outcome |-> "proceed", id |-> None, cache |-> room_info]

\* one invocation of the tool, the call of create_booking included
ToolCreateBooking(phone, room_type, check_in, check_out, room_id, room_name, num_rooms) ==
    \E t \in {ToolChecks(phone, room_type, check_in, check_out, room_id)} :
       IF t.outcome = "proceed"
       THEN CreateBookingFrom(t.cache, phone, room_id, room_type,
                              IF room_name = "" THEN room_type ELSE room_name,
                              check_in, check_out, num_rooms)
       ELSE /\ cache' = t.cache
            /\ last' = [NoCall EXCEPT !.op = t.outcome, !.ret = t.id]
            /\ UNCHANGED <<today, pending, archive, archOrder, hotel, sideVars>>

\* --------------------------------------------------- update_booking_status
FirstCell(row) ==
    CASE row.kind = "bk" -> row.id
      [] row.kind = "hdr" -> "Booking ID"
      [] OTHER -> ""

RECURSIVE FindBookingAnyId(_, _, _, _)
\* the search taking the first booking row whatever its Booking ID
FindBookingAnyId(rows, booking_id, idx, inSection) ==
    IF idx > Len(rows) THEN 0
    ELSE IF rows[idx].kind = "bk" THEN idx
    ELSE FindBookingAnyId(rows, booking_id, idx + 1, inSection)

RECURSIVE FindBooking(_, _, _, _)
\* the row-by-row search of update_booking_status; 0 when the ID is not found
FindBooking(rows, booking_id, idx, inSection) ==
    IF idx > Len(rows) THEN 0
    ELSE IF rows[idx].kind = "empty" THEN FindBooking(rows, booking_id, idx + 1, inSection)
    ELSE IF rows[idx].kind = "month" THEN FindBooking(rows, booking_id, idx + 1, TRUE)
    ELSE IF inSection /\ rows[idx].kind = "hdr"
         THEN FindBooking(rows, booking_id, idx + 1, inSection)
    ELSE IF FirstCell(rows[idx]) = booking_id THEN idx
    ELSE FindBooking(rows, booking_id, idx + 1, inSection)

\* the monthly row with the pending row's Status cell copied instead of 'confirmed'
MonthlyRowKeepingStatus(booking_row, notes) ==
    [kind |-> "bk", id |-> booking_row.id, ci |-> booking_row.ci, co |-> booking_row.co,
     rtype |-> booking_row.rtype, rname |-> booking_row.rname, room |-> booking_row.room,
     n |-> booking_row.n, status |-> booking_row.status]

\* the cells written to the monthly sheet ("Approved At" and "Notes", which no
\* code path reads back, are left out of the monthly rows)
MonthlyRow(booking_row, notes) ==
    [kind |-> "bk", id |-> booking_row.id, ci |-> booking_row.ci, co |-> booking_row.co,
     rtype |-> booking_row.rtype, rname |-> booking_row.rname, room |-> booking_row.room,
     n |-> booking_row.n, status |-> "confirmed"]

\* the scan that settles for the row under the header
MonthlyInsertionPointAtTop(rows, d, idx, ins) == ins

RECURSIVE MonthlyInsertionPoint(_, _, _, _)
\* insertion point in the monthly sheet: before the first row that is not newer
MonthlyInsertionPoint(rows, d, idx, ins) ==
    IF idx > Len(rows) THEN ins
    ELSE IF rows[idx].kind = "bk"
         THEN IF d >= rows[idx].ci THEN idx
              ELSE MonthlyInsertionPoint(rows, d, idx + 1, idx + 1)
    ELSE MonthlyInsertionPoint(rows, d, idx + 1, ins)

\* _get_or_create_monthly_booking_sheet(check_in_date): the sheet it names
MonthlySheetOf(check_in) == MonthOf(check_in)

\* an update that writes the new range over the ones the cell held
ReplaceRoomBookedDates(rows, room_id, check_in, check_out) ==
    LET at == FindRoom(rows, room_id, 1)
    IN  IF ~Parses(check_in) \/ ~Parses(check_out) \/ at = 0 THEN rows
        ELSE [rows EXCEPT ![at].booked = <<[ci |-> check_in, co |-> check_out]>>]

\* update_room_booked_dates(room_id, check_in, check_out, add=True) on the hotel rows
UpdateRoomBookedDates(rows, room_id, check_in, check_out) ==
    LET at == FindRoom(rows, room_id, 1)
    IN  IF ~Parses(check_in) \/ ~Parses(check_out) \/ at = 0 THEN rows
        ELSE [rows EXCEPT ![at].booked =
                SortByCheckIn(Append(CleanupExpiredBookedDates(ParseBookedDates(@)),
                                     [ci |-> check_in, co |-> check_out]))]

Flag(s) == [isNum |-> FALSE, s |-> s, n |-> 0]
Num(n) == [isNum |-> TRUE, s |-> "", n |-> n]
Max(a, b) == IF a >= b THEN a ELSE b

\* the new value of the cell without the floor at zero
DecrementedBelowZero(avail, num_rooms) ==
    IF ~avail.isNum /\ avail.s \in {"Yes", "Available", "True"}
    THEN IF num_rooms >= 1 THEN Flag("No") ELSE avail
    ELSE IF avail.isNum THEN Num(avail.n - num_rooms)
    ELSE avail

\* the new value of the Current Available cell
Decremented(avail, num_rooms) ==
    IF ~avail.isNum /\ avail.s \in {"Yes", "Available", "True"}
    THEN IF num_rooms >= 1 THEN Flag("No") ELSE avail
    ELSE IF avail.isNum THEN Num(Max(0, avail.n - num_rooms))
    ELSE avail

\* _decrement_room_availability_by_id on the hotel rows
DecrementRoomAvailabilityById(rows, room_id, num_rooms) ==
    LET at == FindRoom(rows, room_id, 1)
    IN  IF at = 0 THEN rows
        ELSE [rows EXCEPT ![at].avail = Decremented(@, num_rooms)]

\* the else branch writing the Num Rooms cell as well
StatusUpdatedWide(row, status, notes) ==
    [row EXCEPT !.status = status, !.notes = IF notes # "" THEN notes ELSE @, !.n = 0]

\* the else branch: Status cell, and Notes cell when notes are given
StatusUpdated(row, status, notes) ==
    [row EXCEPT !.status = status, !.notes = IF notes # "" THEN notes ELSE @]

IsApproval(status) == status \in {"approved", "confirmed"}

\* lines 907-1053: what an approval writes, having found booking_row at row_idx
ApprovalWrites(booking_row, row_idx, notes) ==
    LET m == MonthlySheetOf(booking_row.ci)
        sheet == IF archive[m] = <<>> THEN <<MonthlyHdrRow>> ELSE archive[m]
        ins == MonthlyInsertionPoint(sheet, booking_row.ci, 2, 2)
        found == FindRoom(hotel, booking_row.room, 1) # 0
    IN  /\ archive' = [archive EXCEPT ![m] = InsertRow(sheet, MonthlyRow(booking_row, notes), ins)]
        /\ archOrder' = IF archive[m] = <<>> THEN Append(archOrder, m) ELSE archOrder
        /\ pending' = DeleteRow(pending, row_idx)
        /\ hotel' = DecrementRoomAvailabilityById(
                        UpdateRoomBookedDates(hotel, booking_row.room, booking_row.ci,
                                              booking_row.co),
                        booking_row.room, booking_row.n)
        /\ cache' = InvalidatePending(IF found THEN InvalidateHotel(cache) ELSE cache)

UpdateBookingStatus(booking_id, status, notes) ==
    \E at \in {IF Len(pending) < 2 THEN 0 ELSE FindBooking(pending, booking_id, 1, FALSE)} :
    LET call == [NoCall EXCEPT !.op = "update"]
        done == [call EXCEPT !.ret = "True", !.id = booking_id,
                             !.op = IF IsApproval(status) THEN "approve" ELSE "reject"]
    IN  /\ UNCHANGED sideVars
        /\ IF at = 0
           THEN /\ last' = [call EXCEPT !.ret = "False"]
                /\ UNCHANGED <<today, pending, archive, archOrder, hotel, cache>>
           ELSE IF IsApproval(status)
           THEN /\ ApprovalWrites(pending[at], at, notes)
                /\ last' = done
                /\ UNCHANGED today
           ELSE /\ pending' = [pending EXCEPT ![at] = StatusUpdated(@, status, notes)]
                /\ cache' = InvalidatePending(cache)
                /\ last' = done
                /\ UNCHANGED <<today, archive, archOrder, hotel>>

\* ------------------------------------------------------------ environment
\* midnight passes
Tick ==
    /\ today < MaxToday
    /\ today' = today + 1
    /\ UNCHANGED <<pending, archive, archOrder, hotel, cache, last, sideVars>>

\* a cache entry grows older than cache_ttl: the next read fetches the sheet again
ExpirePending ==
    /\ cache.pending.valid
    /\ cache' = InvalidatePending(cache)
    /\ UNCHANGED <<today, pending, archive, archOrder, hotel, last, sideVars>>

ExpireHotel ==
    /\ cache.hotel.valid
    /\ cache' = InvalidateHotel(cache)
    /\ UNCHANGED <<today, pending, archive, archOrder, hotel, last, sideVars>>

ExpireMonthly(m) ==
    /\ cache.arch[m].valid
    /\ cache' = [cache EXCEPT !.arch[m] = NoEntry]
    /\ UNCHANGED <<today, pending, archive, archOrder, hotel, last, sideVars>>

\* ------------------------------------------------- the overlap tests alone
ProbeDays == 0..MaxProbeDay
NoProbe == [a |-> <<0, 0>>, b |-> <<0, 0>>, method |-> "none", inline |-> "none"]

\* self._dates_overlap(A.start, A.end, B.start, B.end)
CallDatesOverlap ==
    /\ probe.method = "none"
    /\ probe' = [probe EXCEPT !.method =
                    IF DatesOverlap(probe.a[1], probe.a[2], probe.b[1], probe.b[2])
                    THEN "True" ELSE "False"]
    /\ UNCHANGED <<sheetVars, bdcell, wa, sess, req, appr, current_hour, wk, vs, rl, ag, sm, tl>>

\* the row scan's test with A as the request and B as the row's dates
CallInlineOverlap ==
    /\ probe.inline = "none"
    /\ probe' = [probe EXCEPT !.inline =
                    IF InlineOverlap(probe.a[1], probe.a[2], probe.b[1], probe.b[2])
                    THEN "True" ELSE "False"]
    /\ UNCHANGED <<sheetVars, bdcell, wa, sess, req, appr, current_hour, wk, vs, rl, ag, sm, tl>>

\* ------------------------------------------- parsing and cleanup alone
NoCell == [text |-> <<>>, step |-> "none", ranges |-> <<>>, kept |-> <<>>]

\* booked_ranges = self._parse_booked_dates(current_booked_dates)
CallParseBookedDates ==
    /\ bdcell.step = "text"
    /\ bdcell' = [bdcell EXCEPT !.step = "parsed", !.ranges = ParseBookedDatesStr(bdcell.text)]
    /\ UNCHANGED <<sheetVars, probe, wa, sess, req, appr, current_hour, wk, vs, rl, ag, sm, tl>>

\* booked_ranges = self._cleanup_expired_booked_dates(booked_ranges)
CallCleanupExpiredBookedDates ==
    /\ bdcell.step = "parsed"
    /\ bdcell' = [bdcell EXCEPT !.step = "cleaned", !.kept = CleanupExpiredBookedDates(bdcell.ranges)]
    /\ UNCHANGED <<sheetVars, probe, wa, sess, req, appr, current_hour, wk, vs, rl, ag, sm, tl>>

\* ------------------------------------------------- send_whatsapp_message
\* what one requests.post can come to: a status code, with the Retry-After header
\* of a 429 absent, a number of seconds or an HTTP date, or an exception
ApiAnswers == {"200", "401", "429", "429 seconds", "429 date", "500",
               "Timeout", "RequestException"}
NoSend == [valid |-> FALSE, answers |-> <<>>, attempt |-> 0, posts |-> 0,
           result |-> "idle"]

\* the call returns before the loop when validate_phone_number fails
SendInvalidPhone ==
    /\ wa.result = "called" /\ ~wa.valid
    /\ wa' = [wa EXCEPT !.result = "None"]
    /\ UNCHANGED <<sheetVars, probe, bdcell, sess, req, appr, current_hour, wk, vs, rl, ag, sm, tl>>

\* one pass of "for attempt in range(max_retries)"
SendAttempt ==
    /\ wa.result = "called" /\ wa.valid /\ wa.attempt < max_retries
    /\ LET response == wa.answers[wa.attempt + 1]
           after == [wa EXCEPT !.attempt = @ + 1, !.posts = @ + 1]
       IN  wa' = CASE response = "200" -> [after EXCEPT !.result = "json"]
                   [] response = "401" -> [after EXCEPT !.result = "None"]
                   \* int(response.headers.get('Retry-After', 5)) on an HTTP date
                   [] response = "429 date" -> [after EXCEPT !.result = "ValueError"]
                   [] OTHER -> after
    /\ UNCHANGED <<sheetVars, probe, bdcell, sess, req, appr, current_hour, wk, vs, rl, ag, sm, tl>>

\* the loop has run out: return None
SendGiveUp ==
    /\ wa.result = "called" /\ wa.valid /\ wa.attempt = max_retries
    /\ wa' = [wa EXCEPT !.result = "None"]
    /\ UNCHANGED <<sheetVars, probe, bdcell, sess, req, appr, current_hour, wk, vs, rl, ag, sm, tl>>

\* ------------------------------------------------------ Session.add_message
MaxHistory == 10
Roles == {"user", "assistant"}
Contents == {"hi"}

\* Message(role=role, content=content); the timestamp plays no part in the history
Message(role, content) == [role |-> role, content |-> content]

\* Session.__init__: self.history = []; added is the record of the calls made
NoSession == [history |-> <<>>, added |-> <<>>]

\* q[-n:] for 0 < n
LastN(q, n) == IF Len(q) <= n THEN q ELSE SubSeq(q, Len(q) - n + 1, Len(q))

\* a truncation that keeps the oldest messages
KeepOldest(history) ==
    IF Len(history) > MaxHistory THEN SubSeq(history, 1, MaxHistory) ELSE history

\* if len(self.history) > 10: self.history = self.history[-10:]
KeepLast(history) ==
    IF Len(history) > MaxHistory THEN LastN(history, MaxHistory) ELSE history

\* session.add_message(role, content)
AddMessage(role, content) ==
    /\ Len(sess.added) < MaxAdds
    /\ sess' = [history |-> KeepLast(Append(sess.history, Message(role, content))),
                added |-> Append(sess.added, Message(role, content))]
    /\ UNCHANGED <<sheetVars, probe, bdcell, wa, req, appr, current_hour, wk, vs, rl, ag, sm, tl>>

\* -------------------------------------- create_booking calls side by side
\* handle_webhook starts one thread per message; all of them call the one manager
Threads == 1..NumThreads
NoDecision == [ok |-> FALSE, accepted |-> FALSE, room |-> [id |-> "", name |-> ""]]
\* early: the thread made its checks before any thread had inserted a row
NoRequest == [pc |-> "idle", room |-> "", rtype |-> "", ci |-> BadDate, co |-> BadDate,
              early |-> FALSE, chk |-> NoDecision, used |-> NoDecision, ret |-> None]
NoRequests == [t \in Threads |-> NoRequest]
Decision(chk) == [ok |-> chk.ok, accepted |-> chk.accepted, room |-> chk.room]
Inserted(t) == req[t].pc = "done" /\ req[t].ret # None

\* lines 434-481 in thread t: the two checks and the substitute search
RaceCheck(t, room_id, room_type, room_name, check_in, check_out) ==
    /\ req[t].pc = "idle"
    /\ \E chk \in {CreateBookingChecksOn(cache, room_id, room_type, room_name,
                                         check_in, check_out)} :
          /\ req' = [req EXCEPT ![t] =
                        [@ EXCEPT !.pc = IF chk.accepted THEN "checked" ELSE "done",
                                  !.room = room_id, !.rtype = room_type,
                                  !.ci = check_in, !.co = check_out,
                                  !.early = \A u \in Threads : ~Inserted(u),
                                  !.chk = Decision(chk)]]
          /\ cache' = chk.cache
    /\ UNCHANGED <<today, pending, archive, archOrder, hotel, last, probe, bdcell, wa, sess, appr, current_hour, wk, vs, rl, ag, sm, tl>>

\* checks made over again at the moment of writing the row
ChecksMadeAgain(t) ==
    Decision(CreateBookingChecksOn(cache, req[t].room, req[t].rtype, req[t].chk.room.name,
                                   req[t].ci, req[t].co))

\* what thread t goes by when it writes its row: the checks it made at line 434
ChecksGoneBy(t) == req[t].chk

\* lines 483-512 in thread t: the ID, the row, the sorted insertion
RaceInsert(t) ==
    /\ req[t].pc = "checked"
    /\ \E d \in {ChecksGoneBy(t)} :
          IF ~d.accepted
          THEN /\ req' = [req EXCEPT ![t] = [@ EXCEPT !.pc = "done", !.used = d]]
               /\ UNCHANGED <<pending, cache>>
          ELSE \E booking_id \in GeneratedIds :
                  /\ pending' = InsertBookingSorted(pending,
                                    BookingRow(booking_id, CustomerPhone, req[t].ci,
                                               req[t].co, req[t].rtype, d.room.name,
                                               d.room.id, 1, "pending", today, ""))
                  /\ cache' = InvalidatePending(cache)
                  /\ req' = [req EXCEPT ![t] = [@ EXCEPT !.pc = "done", !.used = d,
                                                         !.ret = booking_id]]
    /\ UNCHANGED <<today, archive, archOrder, hotel, last, probe, bdcell, wa, sess, appr, current_hour, wk, vs, rl, ag, sm, tl>>

\* ----------------------------- an approval with other calls in between
\* the dashboard's approval runs in its own request thread of the same process
NoApproval == [pc |-> "idle", id |-> "", row_idx |-> 0, row |-> EmptyRow]

\* lines 858-907: data = worksheet.get_all_values() and the search for the row;
\* a call that does not find the ID returns False at once (UpdateBookingStatus)
ApproveFind(booking_id) ==
    /\ appr.pc = "idle"
    /\ \E at \in {IF Len(pending) < 2 THEN 0
                  ELSE FindBooking(pending, booking_id, 1, FALSE)} :
          /\ at # 0
          /\ appr' = [pc |-> "found", id |-> booking_id, row_idx |-> at,
                      row |-> pending[at]]
    /\ UNCHANGED <<sheetVars, probe, bdcell, wa, sess, req, current_hour, wk, vs, rl, ag, sm, tl>>

\* lines 909-1064: the monthly row, worksheet.delete_rows(row_idx), the room
ApproveWrite ==
    /\ appr.pc = "found"
    /\ ApprovalWrites(appr.row, appr.row_idx, "")
    /\ last' = [NoCall EXCEPT !.op = "approve", !.ret = "True", !.id = appr.id]
    /\ appr' = NoApproval
    /\ UNCHANGED <<today, probe, bdcell, wa, sess, req, current_hour, wk, vs, rl, ag, sm, tl>>

\* --------------------------------------- an approval that a step fails in
\* the calls of the approval branch that write to the spreadsheet, in order; each
\* is a request to the Sheets API and raises when the request fails
ApprovalWritesInOrder == <<"insert_row", "delete_rows">>

\* update_booking_status(booking_id, 'approved') when the call named by raises
\* reaches the API and fails: the except clause at line 1066 returns False and
\* what was written before stays written
ApprovalRaises(booking_id, raises) ==
    \E at \in {IF Len(pending) < 2 THEN 0 ELSE FindBooking(pending, booking_id, 1, FALSE)} :
    /\ at # 0
    /\ raises = "delete_rows" => NumBookings <= MaxBookings
    /\ LET booking_row == pending[at]
           m == MonthlySheetOf(booking_row.ci)
           \* _get_or_create_monthly_booking_sheet and the header row
           sheet == IF archive[m] = <<>> THEN <<MonthlyHdrRow>> ELSE archive[m]
           ins == MonthlyInsertionPoint(sheet, booking_row.ci, 2, 2)
       IN  /\ archive' = [archive EXCEPT ![m] =
                             IF raises = "insert_row" THEN sheet
                             ELSE InsertRow(sheet, MonthlyRow(booking_row, ""), ins)]
           /\ archOrder' = IF archive[m] = <<>> THEN Append(archOrder, m) ELSE archOrder
    /\ last' = [NoCall EXCEPT !.op = "update", !.ret = "False", !.id = booking_id]
    /\ UNCHANGED <<today, pending, hotel, cache, sideVars>>

\* ------------------------------------------------ the auto-checkout sweep
CheckoutHour == 11
\* an hour before the checkout hour and the checkout hour
ClockHours == {CheckoutHour - 1, CheckoutHour}
RoomCounts == {1, 3}

\* _make_room_available(room_id) on the hotel rows
MakeRoomAvailable(rows, room_id) ==
    LET at == FindRoom(rows, room_id, 1)
    IN  IF at = 0 THEN rows ELSE [rows EXCEPT ![at].avail = Flag("Yes")]

\* the sweep's test without the hour: due from the morning of the check-out day
CheckoutDueAnyHour(row) ==
    /\ row.kind = "bk"
    /\ row.status \in {"approved", "confirmed"}
    /\ row.room # ""
    /\ Parses(row.co)
    /\ row.co <= today

\* lines 119-161: the rows of a monthly sheet that the sweep acts on
CheckoutDue(row) ==
    /\ row.kind = "bk"
    /\ row.status \in {"approved", "confirmed"}
    /\ row.room # ""
    /\ Parses(row.co)
    /\ \/ row.co < today
       \/ row.co = today /\ current_hour >= CheckoutHour

RECURSIVE SweepRows(_, _, _)
\* for row in bookings_data[1:]; acc is the hotel sheet and the cache so far
SweepRows(rows, i, acc) ==
    IF i > Len(rows) THEN acc
    ELSE IF CheckoutDue(rows[i]) /\ FindRoom(acc.hotel, rows[i].room, 1) # 0
         THEN SweepRows(rows, i + 1,
                        [hotel |-> MakeRoomAvailable(acc.hotel, rows[i].room),
                         cache |-> InvalidateHotel(acc.cache)])
    ELSE SweepRows(rows, i + 1, acc)

RECURSIVE SweepSheets(_, _)
\* for booking_sheet in booking_sheets, each read with read_all_data
SweepSheets(k, acc) ==
    IF k > Len(archOrder) THEN acc
    ELSE LET r == ReadArchive(acc.cache, archOrder[k])
         IN  SweepSheets(k + 1, SweepRows(r.data, 2, [acc EXCEPT !.cache = r.cache]))

\* _process_auto_checkout when an hour has gone by since its last run
ProcessAutoCheckout ==
    \E swept \in {SweepSheets(1, [hotel |-> hotel, cache |-> cache])} :
        /\ hotel' = swept.hotel
        /\ cache' = swept.cache
        /\ last' = [NoCall EXCEPT !.op = "sweep"]
        /\ UNCHANGED <<today, pending, archive, archOrder, probe, bdcell, wa, sess, req,
                       appr, current_hour, wk, vs, rl, ag, sm, tl>>

\* the clock reaches the checkout hour, or midnight passes and a new morning comes
ClockAdvances ==
    /\ IF current_hour < CheckoutHour
       THEN current_hour' = CheckoutHour /\ today' = today
       ELSE today < MaxSweepDay /\ today' = today + 1 /\ current_hour' = CheckoutHour - 1
    /\ UNCHANGED <<pending, archive, archOrder, hotel, cache, last, probe, bdcell, wa,
                   sess, req, appr, wk, vs, rl, ag, sm, tl>>

\* ------------------------------------------------------ the message worker
\* Queue(maxsize=1000) in the program; the model's queue is full much sooner
MaxQueue == 2
\* the messages a webhook delivery can carry, each delivered once
Messages == {"m1", "m2", "m3"}
\* the None that cleanup() puts on the queue
Sentinel == "None"
\* what a send_whatsapp_message call comes to: a sent message, None after the
\* retries, or an exception that leaves the function
SendOutcomes == {"sent", "none", "raises"}

NoWorker == [queue |-> <<>>, put |-> <<>>, busy |-> {}, pc |-> "get", data |-> Sentinel,
             taken |-> <<>>, sends |-> <<>>, raised |-> {}, done |-> 0]

\* message_queue.get() taking from the wrong end
QueueGetNewest(queue) ==
    [data |-> queue[Len(queue)], rest |-> SubSeq(queue, 1, Len(queue) - 1)]

\* message_queue.get(): the oldest item leaves the queue
QueueGet(queue) == [data |-> Head(queue), rest |-> Tail(queue)]

SendCall(data, text, outcome) == [to |-> data, text |-> text, outcome |-> outcome]

\* handle_webhook: a text message is queued unless the queue is full, and then
\* the sender is told to try again later
HandleWebhook(m) ==
    /\ \A i \in 1..Len(wk.put) : wk.put[i] # m
    /\ m \notin wk.busy
    /\ IF Len(wk.queue) < MaxQueue
       THEN wk' = [wk EXCEPT !.queue = Append(@, m), !.put = Append(@, m)]
       ELSE wk' = [wk EXCEPT !.busy = @ \cup {m}]
    /\ UNCHANGED <<sheetVars, probe, bdcell, wa, sess, req, appr, current_hour, vs, rl, ag, sm, tl>>

\* cleanup(): the shutdown signal waits for a free place on the queue
Cleanup ==
    /\ \A i \in 1..Len(wk.queue) : wk.queue[i] # Sentinel
    /\ wk.pc # "stopped"
    /\ Len(wk.queue) < MaxQueue
    /\ wk' = [wk EXCEPT !.queue = Append(@, Sentinel)]
    /\ UNCHANGED <<sheetVars, probe, bdcell, wa, sess, req, appr, current_hour, vs, rl, ag, sm, tl>>

\* data = message_queue.get(); if data is None: break
WorkerGet ==
    /\ wk.pc = "get"
    /\ wk.queue # <<>>
    /\ \E g \in {QueueGet(wk.queue)} :
          IF g.data = Sentinel
          THEN wk' = [wk EXCEPT !.queue = g.rest, !.pc = "stopped"]
          ELSE wk' = [wk EXCEPT !.queue = g.rest, !.pc = "agent", !.data = g.data,
                                !.taken = Append(@, g.data)]
    /\ UNCHANGED <<sheetVars, probe, bdcell, wa, sess, req, appr, current_hour, vs, rl, ag, sm, tl>>

\* whatsapp_agent.process_message returns a response or raises
AgentAnswers(raises) ==
    /\ wk.pc = "agent"
    /\ wk' = [wk EXCEPT !.pc = IF raises THEN "apology" ELSE "send",
                        !.raised = IF raises THEN @ \cup {wk.data} ELSE @]
    /\ UNCHANGED <<sheetVars, probe, bdcell, wa, sess, req, appr, current_hour, vs, rl, ag, sm, tl>>

\* send_whatsapp_message with the response; an exception leaving it is caught
\* by the same handler as one of the agent; then message_queue.task_done()
SendResponse(outcome) ==
    /\ wk.pc = "send"
    /\ wk' = [wk EXCEPT !.sends = Append(@, SendCall(wk.data, "response", outcome)),
                        !.pc = IF outcome = "raises" THEN "apology" ELSE "get",
                        !.done = IF outcome = "raises" THEN @ ELSE @ + 1]
    /\ UNCHANGED <<sheetVars, probe, bdcell, wa, sess, req, appr, current_hour, vs, rl, ag, sm, tl>>

\* the handler sends the apology; an exception leaving this call is caught by
\* the outer handler of the loop, which skips task_done() and goes on
SendApology(outcome) ==
    /\ wk.pc = "apology"
    /\ wk' = [wk EXCEPT !.sends = Append(@, SendCall(wk.data, "apology", outcome)),
                        !.pc = "get",
                        !.done = IF outcome = "raises" THEN @ ELSE @ + 1]
    /\ UNCHANGED <<sheetVars, probe, bdcell, wa, sess, req, appr, current_hour, vs, rl, ag, sm, tl>>

\* one step of the worker thread
WorkerStep ==
    \/ WorkerGet
    \/ \E raises \in BOOLEAN : AgentAnswers(raises)
    \/ \E outcome \in SendOutcomes : SendResponse(outcome)
    \/ \E outcome \in SendOutcomes : SendApology(outcome)

\* ------------------------------------------------------ the refresh check
\* the clock of the model moves in steps of this many seconds, up to MaxClock
TickSeconds == 150
MaxClock == 900
\* GoogleSheetsManager(cache_ttl=60)
cache_ttl == 60
\* BackgroundTaskManager.vectorstore_check_interval
vectorstore_check_interval == 300
\* an invalidation counts as recent for this many seconds
RecentInvalidation == 300
\* a cached hotel sheet older than this many seconds asks for a refresh
OldCache == 600
\* None, for a time that was never set and for a sheet that is not cached
Never == -1
\* one room sheet and the pending sheet
CachedSheets == {"Hotels", "Pending Bookings"}
\* 'booking' in str(sheet_name).lower() or 'pending' in str(sheet_name).lower()
IsBookingKey(sheet_name) == sheet_name = "Pending Bookings"

\* timestamp: _sheet_data_cache; update_time: _last_sheet_update_time;
\* invalidation: _last_cache_invalidation; result: what the last check answered
NoRefresh == [now |-> 0,
              timestamp |-> [n \in CachedSheets |-> Never],
              update_time |-> [n \in CachedSheets |-> Never],
              invalidation |-> Never,
              last_vectorstore_check |-> 0,
              written |-> Never,
              result |-> "none"]

\* read_all_data: a fresh cache entry is kept, any other is read again and stamped
ReadAllData(sheet_name) ==
    /\ vs' = [vs EXCEPT !.timestamp[sheet_name] =
                 IF @ # Never /\ vs.now - @ < cache_ttl THEN @ ELSE vs.now]
    /\ vs'.timestamp # vs.timestamp
    /\ UNCHANGED <<sheetVars, probe, bdcell, wa, sess, req, appr, current_hour, wk, rl, ag, sm, tl>>

\* _invalidate_sheet_cache(sheet_name) at the end of a write: the entry is
\* dropped and the time goes to _last_sheet_update_time
InvalidateSheetCache(sheet_name) ==
    /\ vs' = [vs EXCEPT !.timestamp[sheet_name] = Never,
                        !.update_time[sheet_name] = vs.now,
                        !.written = vs.now]
    /\ UNCHANGED <<sheetVars, probe, bdcell, wa, sess, req, appr, current_hour, wk, rl, ag, sm, tl>>

\* _should_refresh_vectorstore
ShouldRefreshVectorstore(r) ==
    \/ r.invalidation # Never /\ r.now - r.invalidation < RecentInvalidation
    \/ \E n \in CachedSheets :
          /\ r.timestamp[n] # Never
          /\ ~IsBookingKey(n)
          /\ r.now - r.timestamp[n] > OldCache

\* _check_and_refresh_vectorstore: nothing within five minutes of the last
\* check; otherwise the index is refreshed when the check says so
CheckAndRefreshVectorstore ==
    /\ vs.now - vs.last_vectorstore_check >= vectorstore_check_interval
    /\ vs' = [vs EXCEPT !.last_vectorstore_check = vs.now,
                        !.result = IF ShouldRefreshVectorstore(vs) THEN "refreshed"
                                   ELSE "kept"]
    /\ UNCHANGED <<sheetVars, probe, bdcell, wa, sess, req, appr, current_hour, wk, rl, ag, sm, tl>>

\* time.time() moves on
TimePasses ==
    /\ vs.now < MaxClock
    /\ vs' = [vs EXCEPT !.now = @ + TickSeconds]
    /\ UNCHANGED <<sheetVars, probe, bdcell, wa, sess, req, appr, current_hour, wk, rl, ag, sm, tl>>

\* ----------------------------------------------- the sorted insertions alone
\* the rows one run inserts, and the Booking IDs they get, all different
MaxSortedRows == 4
SortedIds == <<"BK1", "BK2", "BK3", "BK4", "BK5", "BK6">>

\* lines 483-512 of create_booking: the row is built, _insert_booking_sorted
\* places it and the pending sheet's cache entry is dropped; the stay is one
\* night, and only the check-in decides where the row goes
CreateBookingInsertion(check_in) ==
    /\ NumBookings < MaxSortedRows
    /\ NumBookings < Len(SortedIds)
    /\ LET booking_id == SortedIds[NumBookings + 1]
           row == BookingRow(booking_id, CustomerPhone, check_in, check_in + 1, "Twin Room",
                             "Twin Room", "R1", 1, "pending", today, "")
       IN  /\ pending' = InsertBookingSorted(pending, row)
           /\ cache' = InvalidatePending(cache)
           /\ last' = [NoCall EXCEPT !.op = "create", !.ret = booking_id, !.room = "R1",
                                     !.ci = check_in, !.co = check_in + 1,
                                     !.phone = CustomerPhone]
    /\ UNCHANGED <<today, archive, archOrder, hotel, sideVars>>

\* ------------------------------------- the checks on sheets edited by hand
\* the date cells a sheet may hold: ranges as the program writes them and
\* cells a person left with a text that is no YYYY-MM-DD date
CellRanges == {<<0, 1>>, <<1, 2>>, <<BadDate, 1>>, <<0, BadDate>>}
\* at most this many rows in the pending sheet and entries in a Booked Dates cell
MaxCells == 2

\* a booking row of room R1 with the given date cells
SheetRow(r, status) ==
    BookingRow("BK1", CustomerPhone, r[1], r[2], "Twin Room", "Twin Room", "R1", 1,
               status, 0, "")

\* the sequences of at most MaxCells ranges
RangeLists == UNION {[1..n -> CellRanges] : n \in 0..MaxCells}

\* check_room_availability_by_date called on the manager
CallCheckRoomAvailabilityByDate(room_id, check_in, check_out) ==
    /\ last.op = "none"
    /\ \E r \in {CheckRoomAvailabilityByDate(cache, room_id, check_in, check_out)} :
          /\ cache' = r.cache
          /\ last' = [NoCall EXCEPT !.op = "check_rows", !.room = room_id, !.ci = check_in,
                                    !.co = check_out,
                                    !.ret = IF r.ok THEN "True" ELSE "False"]
    /\ UNCHANGED <<today, pending, archive, archOrder, hotel, sideVars>>

\* check_room_availability_from_booked_dates_column called on the manager
CallCheckRoomAvailabilityFromBookedDatesColumn(room_id, check_in, check_out) ==
    /\ last.op = "none"
    /\ \E r \in {CheckRoomAvailabilityFromBookedDatesColumn(cache, room_id, check_in,
                                                            check_out)} :
          /\ cache' = r.cache
          /\ last' = [NoCall EXCEPT !.op = "check_column", !.room = room_id,
                                    !.ci = check_in, !.co = check_out,
                                    !.ret = IF r.ok THEN "True" ELSE "False"]
    /\ UNCHANGED <<today, pending, archive, archOrder, hotel, sideVars>>

\* -------------------------------------------------------- the rate limiter
\* Times are tenths of a second.  One run lasts at most MaxRateClock.
MaxRateClock == 1300
\* self._min_request_interval = 1.2
min_request_interval == 12
\* self._max_requests_per_minute = 50
max_requests_per_minute == 50
\* the 60 seconds of "current_time - t < 60" and of the sleep at the ceiling
RateWindow == 600
\* the "+ 1" second of that sleep
RateMargin == 10
\* the thread is busy elsewhere for a minute
IdleTime == 600

\* last_request_time, request_times: the fields of the manager; passed: when
\* the calls so far returned, as far back as one window.  time.time() is far
\* from 0 when the manager is built, so the first call never waits.
NoRate == [now |-> min_request_interval, last_request_time |-> 0, request_times |-> <<>>,
           passed |-> <<>>, slept |-> FALSE]

\* min(self._request_times)
Oldest(times) == CHOOSE t \in {times[i] : i \in 1..Len(times)} :
                    \A i \in 1..Len(times) : t <= times[i]

\* the times a call leaves in the list, given when it started and when the
\* wait for the minimum interval ended
RateLimitFrom(current_time, request_times, spaced) ==
    LET kept == SelectSeq(request_times, LAMBDA t : current_time - t < RateWindow)
        full == Len(kept) >= max_requests_per_minute
        sleep_time == IF full THEN RateWindow - (current_time - Oldest(kept)) + RateMargin
                      ELSE 0
        returns == IF sleep_time > 0 THEN spaced + sleep_time ELSE spaced
    IN  [returns |-> returns,
         slept |-> full /\ sleep_time > 0,
         request_times |-> Append(IF sleep_time > 0 THEN <<>> ELSE kept, returns)]

\* _rate_limit(): one call, its sleeps included
RateLimit ==
    /\ rl.now <= MaxRateClock
    /\ LET current_time == rl.now
           since == current_time - rl.last_request_time
           spaced == IF since < min_request_interval
                     THEN current_time + (min_request_interval - since)
                     ELSE current_time
           r == RateLimitFrom(current_time, rl.request_times, spaced)
       IN  rl' = [now |-> r.returns,
                  last_request_time |-> spaced,
                  request_times |-> r.request_times,
                  passed |-> Append(SelectSeq(rl.passed,
                                              LAMBDA t : r.returns - t < RateWindow),
                                    r.returns),
                  slept |-> r.slept]
    /\ UNCHANGED <<sheetVars, probe, bdcell, wa, sess, req, appr, current_hour, wk, vs, ag, sm, tl>>

\* no call on the manager for a minute
Idle ==
    /\ rl.now + IdleTime <= MaxRateClock
    /\ rl' = [rl EXCEPT !.now = @ + IdleTime]
    /\ UNCHANGED <<sheetVars, probe, bdcell, wa, sess, req, appr, current_hour, wk, vs, ag, sm, tl>>

\* ------------------------------------------ the agent shared by the threads
\* the sender of the message thread t processes
SenderPhone(t) == IF t = 1 THEN "P1" ELSE "P2"
SenderName(t) == IF t = 1 THEN "Ann" ELSE "Bob"

\* what one process_message call has done so far: the customer its input text
\* named and the customer its CreateBooking tool took from the agent
NoTurn == [pc |-> "start", input |-> [name |-> "", phone |-> ""],
           tool |-> [name |-> "", phone |-> ""]]

\* the agent before any message: the two fields are not set yet
NoAgent == [name |-> "", phone |-> "", turn |-> [t \in Threads |-> NoTurn]]

\* self._current_customer_name = customer_name or 'Guest'
StoreCustomerName(t) ==
    /\ ag.turn[t].pc = "start"
    /\ ag' = [ag EXCEPT !.name = SenderName(t), !.turn[t].pc = "name_stored"]
    /\ UNCHANGED <<sheetVars, probe, bdcell, wa, sess, req, appr, current_hour, wk, vs, rl, sm, tl>>

\* self._current_customer_phone = customer_phone
StoreCustomerPhone(t) ==
    /\ ag.turn[t].pc = "name_stored"
    /\ ag' = [ag EXCEPT !.phone = SenderPhone(t), !.turn[t].pc = "stored"]
    /\ UNCHANGED <<sheetVars, probe, bdcell, wa, sess, req, appr, current_hour, wk, vs, rl, sm, tl>>

\* input_text = f"Customer: {self._current_customer_name} | Phone: ..."
BuildInputText(t) ==
    /\ ag.turn[t].pc = "stored"
    /\ ag' = [ag EXCEPT !.turn[t].pc = "invoked",
                        !.turn[t].input = [name |-> ag.name, phone |-> ag.phone]]
    /\ UNCHANGED <<sheetVars, probe, bdcell, wa, sess, req, appr, current_hour, wk, vs, rl, sm, tl>>

\* the CreateBooking tool run by self.agent.invoke takes the customer from
\* agent_self when its input names none
ToolReadsCustomer(t) ==
    /\ ag.turn[t].pc = "invoked"
    /\ ag' = [ag EXCEPT !.turn[t].pc = "done",
                        !.turn[t].tool = [name |-> ag.name, phone |-> ag.phone]]
    /\ UNCHANGED <<sheetVars, probe, bdcell, wa, sess, req, appr, current_hour, wk, vs, rl, sm, tl>>

\* process_message returns; the thread ends and the next message of the same
\* sender gets a thread of its own
TurnEnds(t) ==
    /\ ag.turn[t].pc = "done"
    /\ ag' = [ag EXCEPT !.turn[t] = NoTurn]
    /\ UNCHANGED <<sheetVars, probe, bdcell, wa, sess, req, appr, current_hour, wk, vs, rl, sm, tl>>

\* ------------------------------------------------------------ SessionManager
\* time is counted in thirds of an hour
ttl == 144           \* ttl_hours = 48
SweepEvery == 3      \* time.sleep(3600) in cleanup_job
MaxAdvances == 3     \* how often the clock is advanced
MaxSent == 12        \* messages added side by side
MaxManagerAdds == 2  \* messages added one call after the other
Intents == {"booking"}
Waits == {1, ttl + 1}

\* a phone number without a session
NoSessionEntry == [present |-> FALSE, history |-> <<>>, last_active |-> 0, last_intent |-> ""]

\* Session(phone_number): empty history, last_active = now
NewSession(now) ==
    [present |-> TRUE, history |-> <<>>, last_active |-> now, last_intent |-> ""]

\* what get_session returned last: the history of the session and how long
\* the session had been idle when it was asked for
NoReturn == [phone |-> "", idle |-> 0, history |-> <<>>]

\* add_message in one thread: the message it adds and the slice it has taken
NoAddCall == [pc |-> "idle", phone |-> "", msg |-> 0, slice |-> <<>>]

\* SessionManager(): no sessions.json yet, so self.sessions = {}
NoManager ==
    [now |-> 0, advances |-> 0, sessions |-> [p \in Phones |-> NoSessionEntry],
     file |-> [p \in Phones |-> NoSessionEntry], ret |-> NoReturn, sent |-> 0,
     appended |-> <<>>, call |-> [t \in Threads |-> NoAddCall]]

\* _save_sessions: the file is replaced by a copy of self.sessions
SaveSessions(m) == [m EXCEPT !.file = m.sessions]

\* _is_session_valid at time now
IsSessionValid(session, now) == now < session.last_active + ttl

\* get_session(phone_number) on manager m
GetSessionOn(m, phone) ==
    IF ~m.sessions[phone].present
    THEN SaveSessions([m EXCEPT !.sessions[phone] = NewSession(m.now),
                                !.ret = [phone |-> phone, idle |-> 0, history |-> <<>>]])
    ELSE [m EXCEPT !.sessions[phone].last_active = m.now,
                   !.ret = [phone |-> phone,
                            idle |-> m.now - m.sessions[phone].last_active,
                            history |-> m.sessions[phone].history]]

\* update_session(phone_number, session)
UpdateSessionOn(m, phone, session) ==
    SaveSessions([m EXCEPT !.sessions[phone] = [session EXCEPT !.last_active = m.now]])

\* get_session called on its own, as process_message does for the history
GetSession(phone) ==
    /\ sm' = GetSessionOn(sm, phone)
    /\ UNCHANGED <<sheetVars, probe, bdcell, wa, sess, req, appr, current_hour, wk, vs, rl, ag, tl>>

\* add_message(phone_number, role, content), no other call running
AddMessageCall(phone) ==
    /\ sm.sent < MaxManagerAdds
    /\ \E got \in {GetSessionOn(sm, phone)} :
          sm' = [UpdateSessionOn(got, phone,
                     [got.sessions[phone] EXCEPT
                         !.history = KeepLast(Append(@, sm.sent + 1))])
                 EXCEPT !.sent = sm.sent + 1,
                        !.appended = Append(@, sm.sent + 1)]
    /\ UNCHANGED <<sheetVars, probe, bdcell, wa, sess, req, appr, current_hour, wk, vs, rl, ag, tl>>

\* update_context(phone_number, last_intent=intent)
UpdateContext(phone, intent) ==
    /\ \E got \in {GetSessionOn(sm, phone)} :
          sm' = UpdateSessionOn(got, phone,
                    [got.sessions[phone] EXCEPT !.last_intent = intent])
    /\ UNCHANGED <<sheetVars, probe, bdcell, wa, sess, req, appr, current_hour, wk, vs, rl, ag, tl>>

\* delete_session(phone_number)
DeleteSession(phone) ==
    /\ sm' = IF sm.sessions[phone].present
             THEN SaveSessions([sm EXCEPT !.sessions[phone] = NoSessionEntry])
             ELSE sm
    /\ UNCHANGED <<sheetVars, probe, bdcell, wa, sess, req, appr, current_hour, wk, vs, rl, ag, tl>>

\* _cleanup_expired_sessions at time now: saves only when a session went
CleanupExpiredSessions(m, now) ==
    LET valid_sessions ==
            [p \in Phones |->
                IF m.sessions[p].present /\ ~IsSessionValid(m.sessions[p], now)
                THEN NoSessionEntry ELSE m.sessions[p]]
    IN  IF valid_sessions # m.sessions
        THEN SaveSessions([m EXCEPT !.sessions = valid_sessions])
        ELSE m

\* the clock moves on while no call runs; cleanup_job wakes at every full
\* hour, and of the sweeps falling into the wait the last one decides
HoursPass(wait) ==
    /\ sm.advances < MaxAdvances
    /\ \A t \in Threads : sm.call[t].pc = "idle"
    /\ LET now == sm.now + wait
           sweep == (now \div SweepEvery) * SweepEvery
           swept == IF sweep > sm.now THEN CleanupExpiredSessions(sm, sweep) ELSE sm
       IN  sm' = [swept EXCEPT !.now = now, !.advances = sm.advances + 1]
    /\ UNCHANGED <<sheetVars, probe, bdcell, wa, sess, req, appr, current_hour, wk, vs, rl, ag, tl>>

\* add_message in thread t: session = self.get_session(phone_number)
CallGetSession(t, phone) ==
    /\ sm.call[t].pc = "idle" /\ sm.sent < MaxSent
    /\ sm' = [GetSessionOn(sm, phone) EXCEPT
                 !.sent = sm.sent + 1,
                 !.call[t] = [pc |-> "append", phone |-> phone,
                              msg |-> sm.sent + 1, slice |-> <<>>]]
    /\ UNCHANGED <<sheetVars, probe, bdcell, wa, sess, req, appr, current_hour, wk, vs, rl, ag, tl>>

\* Session.add_message: self.history.append(...); self.last_active = now
CallAppend(t) ==
    /\ sm.call[t].pc = "append"
    /\ sm' = [sm EXCEPT !.sessions[sm.call[t].phone].history = Append(@, sm.call[t].msg),
                        !.sessions[sm.call[t].phone].last_active = sm.now,
                        !.appended = Append(@, sm.call[t].msg),
                        !.call[t].pc = "slice"]
    /\ UNCHANGED <<sheetVars, probe, bdcell, wa, sess, req, appr, current_hour, wk, vs, rl, ag, tl>>

\* Session.add_message: if len(self.history) > 10, evaluate self.history[-10:]
CallSlice(t) ==
    /\ sm.call[t].pc = "slice"
    /\ sm' = IF Len(sm.sessions[sm.call[t].phone].history) > MaxHistory
             THEN [sm EXCEPT !.call[t].pc = "assign",
                             !.call[t].slice =
                                 LastN(sm.sessions[sm.call[t].phone].history, MaxHistory)]
             ELSE [sm EXCEPT !.call[t].pc = "update"]
    /\ UNCHANGED <<sheetVars, probe, bdcell, wa, sess, req, appr, current_hour, wk, vs, rl, ag, tl>>

\* Session.add_message: self.history = the slice taken
CallAssign(t) ==
    /\ sm.call[t].pc = "assign"
    /\ sm' = [sm EXCEPT !.sessions[sm.call[t].phone].history = sm.call[t].slice,
                        !.call[t].pc = "update"]
    /\ UNCHANGED <<sheetVars, probe, bdcell, wa, sess, req, appr, current_hour, wk, vs, rl, ag, tl>>

\* add_message in thread t: self.update_session(phone_number, session)
CallUpdateSession(t) ==
    /\ sm.call[t].pc = "update"
    /\ sm' = [UpdateSessionOn(sm, sm.call[t].phone, sm.sessions[sm.call[t].phone])
              EXCEPT !.call[t] = NoAddCall]
    /\ UNCHANGED <<sheetVars, probe, bdcell, wa, sess, req, appr, current_hour, wk, vs, rl, ag, tl>>

\* ------------------------------------- the CreateBooking tool's check-out date
MaxNights == 2
\* what the check-out argument can be: a night count, the word "night" without
\* a number, a YYYY-MM-DD date, a date like "22nd January", any other text
CheckOutArgs ==
    {[kind |-> "nights", n |-> n] : n \in 1..MaxNights}
       \cup {[kind |-> k, n |-> d] : k \in {"iso", "named"}, d \in Days}
       \cup {[kind |-> k, n |-> 0] : k \in {"night", "text"}}

\* sorted(list(set(all_dates)))[i], counting from 1
RECURSIVE SortedDate(_, _)
SortedDate(dates, i) ==
    LET first == CHOOSE d \in dates : \A e \in dates : d <= e
    IN  IF i = 1 THEN first ELSE SortedDate(dates \ {first}, i - 1)

\* the check-out date the tool arrives at; all_dates are the dates found in
\* the conversation text, the check-in argument and the check-out argument
ParseCheckOut(check_in, check_out_str, all_dates) ==
    CASE check_out_str.kind = "nights" -> check_in + check_out_str.n
      [] check_out_str.kind = "night" -> check_in + 1
      [] check_out_str.kind \in {"iso", "named"} -> check_out_str.n
      [] OTHER ->
           IF Cardinality(all_dates) > 1
           THEN IF check_in = SortedDate(all_dates, 1)
                THEN SortedDate(all_dates, 2)
                ELSE SortedDate(all_dates, Cardinality(all_dates))
           ELSE IF Cardinality(all_dates) = 1
           THEN IF check_in # SortedDate(all_dates, 1)
                THEN SortedDate(all_dates, 1)
                ELSE check_in + 1
           ELSE check_in + 1

\* no tool call yet
NoToolCall == [called |-> FALSE, check_in |-> BadDate,
               check_out_str |-> [kind |-> "text", n |-> 0], all_dates |-> {},
               check_out |-> BadDate, answer |-> ""]

\* the tool up to its room search: with no check-out date it returns the
\* "Could not parse check-out date" answer, else it goes on to the booking
ToolParsesCheckOut(check_in, check_out_str, all_dates) ==
    /\ \E check_out \in {ParseCheckOut(check_in, check_out_str, all_dates)} :
          tl' = [called |-> TRUE, check_in |-> check_in,
                 check_out_str |-> check_out_str, all_dates |-> all_dates,
                 check_out |-> check_out,
                 answer |-> IF check_out = BadDate THEN "provide date" ELSE "search"]
    /\ UNCHANGED <<sheetVars, probe, bdcell, wa, sess, req, appr, current_hour, wk, vs, rl, ag, sm>>

\* ---------------------------------------------------------- specification
HotelRow(id, name, avail) == [id |-> id, name |-> name, avail |-> avail, booked |-> <<>>]

Init ==
    /\ today = 0
    /\ tl = NoToolCall
    /\ sm = NoManager
    /\ ag = NoAgent
    /\ rl = NoRate
    /\ vs = NoRefresh
    /\ wk = NoWorker
    /\ current_hour = 10
    /\ appr = NoApproval
    /\ req = NoRequests
    /\ sess = NoSession
    /\ pending = <<>>
    /\ archive = [m \in Months |-> <<>>]
    /\ archOrder = <<>>
    /\ hotel = <<HotelRow("R1", "Twin Room", Flag("Yes")),
                 HotelRow("R2", "Twin Room", Num(2))>>
    /\ cache = [pending |-> NoEntry, hotel |-> NoEntry, arch |-> [m \in Months |-> NoEntry]]
    /\ last = NoCall
    /\ probe = NoProbe
    /\ bdcell = NoCell
    /\ wa = NoSend

Next ==
    \/ \E room_id \in RoomIds, room_type \in RoomTypes, room_name \in RoomNames,
          check_in \in DateStrs, check_out \in DateStrs, num_rooms \in NumRoomsArgs :
          CreateBooking(room_id, room_type, room_name, check_in, check_out, num_rooms)
    \/ \E booking_id \in BookingIds \cup {""}, status \in StatusArgs, notes \in NoteArgs :
          UpdateBookingStatus(booking_id, status, notes)
    \/ Tick
    \/ ExpirePending
    \/ ExpireHotel
    \/ \E m \in Months : ExpireMonthly(m)

Spec == Init /\ [][Next]_vars

\* any two ranges (ends in either order) handed to the two overlap tests
InitOverlap ==
    /\ today = 0
    /\ tl = NoToolCall
    /\ sm = NoManager
    /\ ag = NoAgent
    /\ rl = NoRate
    /\ vs = NoRefresh
    /\ wk = NoWorker
    /\ current_hour = 10
    /\ appr = NoApproval
    /\ req = NoRequests
    /\ sess = NoSession
    /\ pending = <<>>
    /\ archive = [m \in Months |-> <<>>]
    /\ archOrder = <<>>
    /\ hotel = <<>>
    /\ cache = [pending |-> NoEntry, hotel |-> NoEntry, arch |-> [m \in Months |-> NoEntry]]
    /\ last = NoCall
    /\ \E a1 \in ProbeDays, a2 \in ProbeDays, b1 \in ProbeDays, b2 \in ProbeDays :
          probe = [NoProbe EXCEPT !.a = <<a1, a2>>, !.b = <<b1, b2>>]
    /\ bdcell = NoCell
    /\ wa = NoSend

NextOverlap ==
    \/ CallDatesOverlap
    \/ CallInlineOverlap

SpecOverlap == InitOverlap /\ [][NextOverlap]_vars

\* the agent's tool and the dashboard working on the same spreadsheet
ToolRoomIds == {"R1", "R2", ""}

NextTool ==
    \/ \E phone \in Phones, room_type \in RoomTypes, check_in \in Days, check_out \in Days,
          room_id \in ToolRoomIds, room_name \in RoomNames, num_rooms \in NumRoomsArgs :
          ToolCreateBooking(phone, room_type, check_in, check_out, room_id, room_name,
                            num_rooms)
    \/ \E booking_id \in BookingIds, status \in {"approved", "rejected"} :
          UpdateBookingStatus(booking_id, status, "")
    \/ Tick
    \/ ExpirePending
    \/ ExpireHotel
    \/ \E m \in Months : ExpireMonthly(m)

SpecTool == Init /\ [][NextTool]_vars

\* the sheets of a manager that no call is made on
NoSheets ==
    /\ pending = <<>>
    /\ archive = [m \in Months |-> <<>>]
    /\ archOrder = <<>>
    /\ hotel = <<>>
    /\ cache = [pending |-> NoEntry, hotel |-> NoEntry, arch |-> [m \in Months |-> NoEntry]]
    /\ last = NoCall

RECURSIVE SeqsUpTo(_, _)
\* the sequences over S of length at most n
SeqsUpTo(S, n) ==
    IF n = 0 THEN {<<>>}
    ELSE LET shorter == SeqsUpTo(S, n - 1)
         IN  shorter \cup {Append(q, x) : q \in shorter, x \in S}

RangeSet == {[ci |-> a, co |-> b] : a \in Days, b \in Days}

\* a cell text on some day: one that update_room_booked_dates wrote for up to
\* MaxRanges ranges, or any text of up to MaxTextLen tokens
InitBookedDates ==
    /\ NoSheets
    /\ today \in 0..MaxToday
    /\ tl = NoToolCall
    /\ sm = NoManager
    /\ ag = NoAgent
    /\ rl = NoRate
    /\ vs = NoRefresh
    /\ wk = NoWorker
    /\ current_hour = 10
    /\ appr = NoApproval
    /\ req = NoRequests
    /\ sess = NoSession
    /\ probe = NoProbe
    /\ \E text \in {FormatBookedDates(rs) : rs \in SeqsUpTo(RangeSet, MaxRanges)}
                        \cup SeqsUpTo(TextTokens, MaxTextLen) :
          bdcell = [NoCell EXCEPT !.text = text, !.step = "text"]
    /\ wa = NoSend

NextBookedDates ==
    \/ CallParseBookedDates
    \/ CallCleanupExpiredBookedDates

SpecBookedDates == InitBookedDates /\ [][NextBookedDates]_vars

\* one call, for a phone number that validates or not, and the answers the API
\* gives to the requests the call makes
InitSend ==
    /\ NoSheets
    /\ today = 0
    /\ tl = NoToolCall
    /\ sm = NoManager
    /\ ag = NoAgent
    /\ rl = NoRate
    /\ vs = NoRefresh
    /\ wk = NoWorker
    /\ current_hour = 10
    /\ appr = NoApproval
    /\ req = NoRequests
    /\ sess = NoSession
    /\ probe = NoProbe
    /\ bdcell = NoCell
    /\ \E valid \in BOOLEAN :
       \E answers \in {q \in SeqsUpTo(ApiAnswers, max_retries) : Len(q) = max_retries} :
          wa = [NoSend EXCEPT !.valid = valid, !.answers = answers, !.result = "called"]

NextSend ==
    \/ SendInvalidPhone
    \/ SendAttempt
    \/ SendGiveUp

SpecSend == InitSend /\ [][NextSend]_vars

\* a new session and the messages added to it
InitSession ==
    /\ NoSheets
    /\ today = 0
    /\ tl = NoToolCall
    /\ sm = NoManager
    /\ ag = NoAgent
    /\ rl = NoRate
    /\ vs = NoRefresh
    /\ wk = NoWorker
    /\ current_hour = 10
    /\ appr = NoApproval
    /\ req = NoRequests
    /\ probe = NoProbe
    /\ bdcell = NoCell
    /\ wa = NoSend
    /\ sess = NoSession

NextSession ==
    \E role \in Roles, content \in Contents : AddMessage(role, content)

SpecSession == InitSession /\ [][NextSession]_vars

\* two requests arriving together at a spreadsheet without bookings
InitRace == Init

NextRace ==
    \/ \E t \in Threads, room_id \in RoomIds, room_type \in RoomTypes,
          room_name \in RoomNames, check_in \in DateStrs, check_out \in DateStrs :
          RaceCheck(t, room_id, room_type, room_name, check_in, check_out)
    \/ \E t \in Threads : RaceInsert(t)

SpecRace == InitRace /\ [][NextRace]_vars

\* an approval taken in two steps while bookings are created and other
\* approvals and rejections are made
NextApprove ==
    \/ \E room_id \in RoomIds, room_type \in RoomTypes, room_name \in RoomNames,
          check_in \in DateStrs, check_out \in DateStrs, num_rooms \in NumRoomsArgs :
          CreateBooking(room_id, room_type, room_name, check_in, check_out, num_rooms)
    \/ \E booking_id \in BookingIds, status \in {"approved", "rejected"} :
          UpdateBookingStatus(booking_id, status, "")
    \/ \E booking_id \in BookingIds : ApproveFind(booking_id)
    \/ ApproveWrite

SpecApprove == Init /\ [][NextApprove]_vars

\* bookings created and approved one call at a time, some approvals failing on
\* a request to the API
NextFail ==
    \/ \E room_id \in RoomIds, room_type \in RoomTypes, room_name \in RoomNames,
          check_in \in DateStrs, check_out \in DateStrs, num_rooms \in NumRoomsArgs :
          CreateBooking(room_id, room_type, room_name, check_in, check_out, num_rooms)
    \/ \E booking_id \in BookingIds : UpdateBookingStatus(booking_id, "approved", "")
    \/ \E booking_id \in BookingIds, k \in 1..Len(ApprovalWritesInOrder) :
          ApprovalRaises(booking_id, ApprovalWritesInOrder[k])

SpecFail == Init /\ [][NextFail]_vars

\* bookings made and approved while the days go by and the sweep runs
NextCheckout ==
    \/ \E room_id \in {"R1", "R2"}, room_type \in RoomTypes, room_name \in RoomNames,
          check_in \in Days, check_out \in Days, num_rooms \in RoomCounts :
          /\ check_in < check_out
          /\ CreateBooking(room_id, room_type, room_name, check_in, check_out, num_rooms)
    \/ \E booking_id \in BookingIds : UpdateBookingStatus(booking_id, "approved", "")
    \/ ClockAdvances
    \/ ProcessAutoCheckout
    \/ \E m \in Months : ExpireMonthly(m)

SpecCheckout == Init /\ [][NextCheckout]_vars

\* bookings of one room, approved before their check-out date, while the
\* days go by and the background thread runs its loop
NextCleanup ==
    \/ \E check_in \in Days, check_out \in Days :
          /\ check_in < check_out
          /\ CreateBooking("R1", "Twin Room", "Twin Room", check_in, check_out, 1)
    \/ \E booking_id \in BookingIds :
          /\ \E i \in BookingRowsOf(pending) :
                pending[i].id = booking_id /\ pending[i].co >= today
          /\ UpdateBookingStatus(booking_id, "approved", "")
    \/ ClockAdvances
    \/ ProcessAutoCheckout

\* the loop of _run_tasks is never starved, and the days go by
SpecCleanup ==
    Init /\ [][NextCleanup]_vars /\ WF_vars(ProcessAutoCheckout) /\ WF_vars(ClockAdvances)

\* the webhook feeds the queue and the worker thread drains it
NextWorker ==
    \/ \E m \in Messages : HandleWebhook(m)
    \/ Cleanup
    \/ WorkerGet
    \/ \E raises \in BOOLEAN : AgentAnswers(raises)
    \/ \E outcome \in SendOutcomes : SendResponse(outcome)
    \/ \E outcome \in SendOutcomes : SendApology(outcome)

\* the worker is a thread of its own: it is never kept from its next step
SpecWorker == Init /\ [][NextWorker]_vars /\ WF_vars(WorkerStep)

\* reads, writes and the background check on one clock
NextRefresh ==
    \/ \E n \in CachedSheets : ReadAllData(n)
    \/ \E n \in CachedSheets : InvalidateSheetCache(n)
    \/ CheckAndRefreshVectorstore
    \/ TimePasses

SpecRefresh == Init /\ [][NextRefresh]_vars

\* insertions into the pending sheet and approvals into the monthly sheets
NextSorted ==
    \/ \E check_in \in Days : CreateBookingInsertion(check_in)
    \/ \E i \in 1..MaxSortedRows : UpdateBookingStatus(SortedIds[i], "approved", "")

SpecSorted == Init /\ [][NextSorted]_vars

\* sheets as create_booking and an approval leave them, with date cells that
\* may have been overwritten by hand
InitUnparsable ==
    /\ today = 0
    /\ tl = NoToolCall
    /\ sm = NoManager
    /\ ag = NoAgent
    /\ rl = NoRate
    /\ vs = NoRefresh
    /\ wk = NoWorker
    /\ current_hour = 10
    /\ appr = NoApproval
    /\ req = NoRequests
    /\ sess = NoSession
    /\ \E rs \in RangeLists :
          pending = IF rs = <<>> THEN <<>>
                    ELSE <<HdrRow, MonthRow(0), EmptyRow>>
                            \o [i \in 1..Len(rs) |-> SheetRow(rs[i], "pending")]
    /\ \E r \in CellRanges \cup {<<BadDate, BadDate>>} :
          \/ archive = [m \in Months |-> <<>>] /\ archOrder = <<>>
          \/ /\ archive = [m \in Months |->
                             IF m = 0 THEN <<MonthlyHdrRow, MonthlyRow(SheetRow(r, "pending"), "")>>
                             ELSE <<>>]
             /\ archOrder = <<0>>
    /\ \E rs \in RangeLists :
          hotel = <<[HotelRow("R1", "Twin Room", Flag("Yes")) EXCEPT
                        !.booked = [i \in 1..Len(rs) |-> [ci |-> rs[i][1], co |-> rs[i][2]]]],
                    HotelRow("R2", "Twin Room", Num(2))>>
    /\ cache = [pending |-> NoEntry, hotel |-> NoEntry, arch |-> [m \in Months |-> NoEntry]]
    /\ last = NoCall
    /\ probe = NoProbe
    /\ bdcell = NoCell
    /\ wa = NoSend

NextUnparsable ==
    \/ \E check_in \in DateStrs, check_out \in DateStrs :
          CallCheckRoomAvailabilityByDate("R1", check_in, check_out)
    \/ \E check_in \in DateStrs, check_out \in DateStrs :
          CallCheckRoomAvailabilityFromBookedDatesColumn("R1", check_in, check_out)

SpecUnparsable == InitUnparsable /\ [][NextUnparsable]_vars

\* calls of _rate_limit one after another from one thread
NextRate ==
    \/ RateLimit
    \/ Idle

SpecRate == Init /\ [][NextRate]_vars

\* handle_webhook starts one thread per message; all call the one agent
NextAgent ==
    \E t \in Threads :
       \/ StoreCustomerName(t)
       \/ StoreCustomerPhone(t)
       \/ BuildInputText(t)
       \/ ToolReadsCustomer(t)
       \/ TurnEnds(t)

SpecAgent == Init /\ [][NextAgent]_vars

\* the SessionManager's operations one after the other, and the clock
NextManager ==
    \/ \E phone \in Phones :
          \/ GetSession(phone)
          \/ AddMessageCall(phone)
          \/ \E intent \in Intents : UpdateContext(phone, intent)
          \/ DeleteSession(phone)
    \/ \E wait \in Waits : HoursPass(wait)

SpecManager == Init /\ [][NextManager]_vars

\* add_message called for one phone number by the threads of several messages
NextHistory ==
    \E t \in Threads :
       \/ CallGetSession(t, "P1")
       \/ CallAppend(t)
       \/ CallSlice(t)
       \/ CallAssign(t)
       \/ CallUpdateSession(t)

SpecHistory == Init /\ [][NextHistory]_vars

\* the CreateBooking tool called with every kind of check-out argument
NextCheckOut ==
    \E check_in \in Days, check_out_str \in CheckOutArgs, all_dates \in SUBSET Days :
       ToolParsesCheckOut(check_in, check_out_str, all_dates)

SpecCheckOut == Init /\ [][NextCheckOut]_vars

\* ----------------------------------------------------------------- claims
\* where booking rows are: sheet 0 is Pending Bookings, sheet m + 1 the monthly
\* sheet of month m
Slots ==
    {<<0, i>> : i \in BookingRowsOf(pending)}
    \cup UNION {{<<m + 1, i>> : i \in BookingRowsOf(archive[m])} : m \in Months}
SlotRow(s) == IF s[1] = 0 THEN pending[s[2]] ELSE archive[s[1] - 1][s[2]]
RangesOverlap(a, b) == a.ci < b.co /\ a.co > b.ci
\* some booking row names room r with a range overlapping [ci, co)
BookedOver(r, ci, co) ==
    \E s \in Slots : SlotRow(s).room = r /\ RangesOverlap([ci |-> ci, co |-> co], SlotRow(s))
\* some entry of r's Booked Dates cell overlaps [ci, co)
DatesBookedOver(r, ci, co) ==
    \E k \in 1..Len(hotel) :
        /\ hotel[k].id = r
        /\ \E e \in 1..Len(hotel[k].booked) :
              RangesOverlap([ci |-> ci, co |-> co], hotel[k].booked[e])
Listed(r) == \E k \in 1..Len(hotel) : hotel[k].id = r
ValidRange(ci, co) == ci \in Days /\ co \in Days /\ ci < co /\ ci >= today

\* the booking rows of a sheet in sheet order
BkSeq(rows) == SelectSeq(rows, IsBk)
Without(seq, i) == SubSeq(seq, 1, i - 1) \o SubSeq(seq, i + 1, Len(seq))
CountId(rows, id) == Cardinality({i \in BookingRowsOf(rows) : rows[i].id = id})

\* this step is a create_booking call that returned a booking ID
CreateStep == last'.op = "create" /\ last'.ret # None /\ pending' # pending
\* the rows of the pending sheet after the step that the step added
CreatedRows ==
    {i \in 1..Len(BkSeq(pending')) : Without(BkSeq(pending'), i) = BkSeq(pending)}
\* the step added exactly one pending row; it carries the returned ID and names room r
AddsOneRowFor(r) ==
    /\ Len(BkSeq(pending')) = Len(BkSeq(pending)) + 1
    /\ CreatedRows # {}
    /\ \A i \in CreatedRows :
          /\ BkSeq(pending')[i].id = last'.ret
          /\ BkSeq(pending')[i].room = r
          /\ BkSeq(pending')[i].status = "pending"
    /\ archive' = archive
\* this step is an update_booking_status call that approved and returned True
ApproveStep == last'.op = "approve" /\ pending' # pending
\* this step is an update_booking_status call that rejected and returned True
RejectStep ==
    /\ last'.op = "reject"
    /\ today' = today
    /\ (last' # last \/ pending' # pending \/ cache' # cache)

\* C1: after any sequence of create, approve and reject calls run one at a time,
\* no two booking rows that name the same Room ID (pending sheet and monthly
\* sheets together) have overlapping date ranges.  Stated for two rows with
\* different Booking IDs whose own ranges are well formed (check-in < check-out).
C1_NoDoubleBooking ==
    \A s \in Slots, t \in Slots :
        (/\ s # t
         /\ SlotRow(s).id # SlotRow(t).id
         /\ SlotRow(s).room = SlotRow(t).room
         /\ SlotRow(s).ci < SlotRow(s).co
         /\ SlotRow(t).ci < SlotRow(t).co)
        => ~RangesOverlap(SlotRow(s), SlotRow(t))

\* C2: a create_booking request naming a room r that already has a booking row
\* [a,b) overlapping the requested range is rejected: it returns no booking ID
\* and adds no row.  As a property of steps: no create_booking call that
\* returned a (fresh) ID was a request with a valid range overlapping a
\* well-formed existing booking of the room it named.
C2_OverlapRejected ==
    [][(CreateStep /\ ValidRange(last'.ci, last'.co) /\ last'.ret \notin UsedIds)
         => ~\E s \in Slots :
                /\ SlotRow(s).room = last'.room
                /\ SlotRow(s).ci < SlotRow(s).co
                /\ RangesOverlap([ci |-> last'.ci, co |-> last'.co], SlotRow(s))]_vars

\* room r has exactly one booking row, and its range is [a, b)
OnlyBooking(r, a, b) ==
    \E s \in Slots :
        /\ SlotRow(s).room = r /\ SlotRow(s).ci = a /\ SlotRow(s).co = b
        /\ \A t \in Slots : t # s => SlotRow(t).room # r

\* in every state: a request for r with the valid range [b, c) passes, for r itself
C3_Accepts ==
    \A r \in RoomIds, a \in Days, b \in Days, c \in Days,
       room_type \in RoomTypes, room_name \in RoomNames :
        (OnlyBooking(r, a, b) /\ ValidRange(b, c))
        => LET chk == CreateBookingChecks(r, room_type, room_name, b, c)
           IN  chk.accepted /\ chk.room.id = r
\* every such call that ran returned an ID and added one pending row naming r
C3_Adds ==
    (/\ CreateStep
     /\ \E a \in Days : OnlyBooking(last'.room, a, last'.ci)
     /\ ValidRange(last'.ci, last'.co))
    => AddsOneRowFor(last'.room)
\* C3: for a room r whose only existing booking is [a,b), a create_booking
\* request for r with a valid range [b,c) succeeds: it returns a booking ID and
\* the pending row it creates names r.
C3_TouchingSucceeds == []C3_Accepts /\ [][C3_Adds]_vars
\* a request for [b,c) has just been booked into the room whose other booking is [a,b)
C3_Witness ==
    /\ last.op = "create"
    /\ last.ret # None
    /\ last.ci < last.co
    /\ \E i \in BookingRowsOf(pending), s \in Slots :
          /\ s # <<0, i>>
          /\ pending[i].id = last.ret
          /\ pending[i].room = last.room
          /\ pending[i].ci = last.ci
          /\ SlotRow(s).room = last.room
          /\ SlotRow(s).ci < SlotRow(s).co
          /\ SlotRow(s).co = last.ci
          /\ \A t \in Slots : SlotRow(t).room = last.room => t \in {s, <<0, i>>}

\* C4: for all ranges A and B, _dates_overlap(A, B) is true exactly when
\* A.start < B.end and A.end > B.start; swapping A and B gives the same answer;
\* it is false when A.end = B.start; and the row scan's inline test agrees with it.
C4_OverlapPredicate ==
    LET A == probe.a
        B == probe.b
    IN  /\ probe.method # "none" =>
              /\ (probe.method = "True") <=> (A[1] < B[2] /\ A[2] > B[1])
              /\ (probe.method = "True") <=> DatesOverlap(B[1], B[2], A[1], A[2])
              /\ A[2] = B[1] => probe.method = "False"
        /\ (probe.method # "none" /\ probe.inline # "none") => probe.inline = probe.method
\* both tests have answered for two adjacent well-formed ranges
C4_Witness ==
    /\ probe.method = "False"
    /\ probe.inline = "False"
    /\ probe.a[1] < probe.a[2]
    /\ probe.a[2] = probe.b[1]
    /\ probe.b[1] < probe.b[2]

\* C5: an approval that returns True leaves no row with that booking ID in the
\* pending sheet and adds exactly one row with that ID, Status 'confirmed', to
\* the monthly sheet of the booking's check-in month (and to no other sheet).
\* Stated for pending sheets whose rows all have check-in < check-out.
C5_ApprovalMoves ==
    [][(ApproveStep /\ \A r \in BookingRowsOf(pending) : pending[r].ci < pending[r].co) =>
         \E i \in BookingRowsOf(pending) :
             /\ pending[i].id = last'.id
             /\ CountId(pending', last'.id) = 0
             /\ \A m \in Months \ {MonthOf(pending[i].ci)} : archive'[m] = archive[m]
             /\ LET was == BkSeq(archive[MonthOf(pending[i].ci)])
                    now == BkSeq(archive'[MonthOf(pending[i].ci)])
                IN  \E j \in 1..Len(now) :
                        /\ Without(now, j) = was
                        /\ now[j].id = last'.id
                        /\ now[j].status = "confirmed"]_vars

\* C6: approved and rejected are terminal: a row whose Status is 'rejected'
\* keeps that Status and stays in the pending sheet, and a row of a monthly
\* sheet stays there unchanged, whatever update_booking_status call follows.
\* Stated for rejected rows with check-in < check-out whose Booking ID no other
\* row carries.
C6_Terminal ==
    [][/\ \A i \in BookingRowsOf(pending) :
             (/\ pending[i].status = "rejected"
              /\ pending[i].ci < pending[i].co
              /\ \A s \in Slots \ {<<0, i>>} : SlotRow(s).id # pending[i].id)
             => \E j \in BookingRowsOf(pending') :
                    /\ pending'[j].id = pending[i].id
                    /\ pending'[j].status = "rejected"
       /\ \A m \in Months : \A i \in BookingRowsOf(archive[m]) :
             \E j \in BookingRowsOf(archive'[m]) : archive'[m][j] = archive[m][i]]_vars

\* C7: a rejection changes only the Status and Notes cells of the row it names:
\* the hotel sheet (availability, Booked Dates), every other pending row and
\* every monthly sheet are as before.
C7_RejectFrame ==
    [][RejectStep =>
         /\ hotel' = hotel
         /\ archive' = archive
         /\ archOrder' = archOrder
         /\ \E i \in BookingRowsOf(pending) :
               /\ pending[i].id = last'.id
               /\ Len(pending') = Len(pending)
               /\ pending' = [pending EXCEPT ![i].status = "rejected",
                                             ![i].notes = pending'[i].notes]]_vars
\* one of two pending bookings has just been rejected with a note
C7_Witness ==
    /\ last.op = "reject"
    /\ Cardinality(BookingRowsOf(pending)) = 2
    /\ \E i \in BookingRowsOf(pending), j \in BookingRowsOf(pending) :
          /\ pending[i].id = last.id
          /\ pending[i].status = "rejected"
          /\ pending[i].notes = "note"
          /\ pending[j].id # last.id
          /\ pending[j].status = "pending"

\* C8: every row create_booking writes has check-in < check-out and a check-in
\* not before the day it is written; a request with check-in >= check-out or a
\* past check-in produces no row.
C8_OnlyValidRanges ==
    [][CreateStep =>
         /\ ValidRange(last'.ci, last'.co)
         /\ \A i \in CreatedRows :
               /\ BkSeq(pending')[i].ci < BkSeq(pending')[i].co
               /\ BkSeq(pending')[i].ci >= today]_vars

\* in every state: a request for a listed room r with a valid range that no
\* booking row and no Booked Dates entry of r overlaps is accepted, for r itself
C9_Accepts ==
    \A r \in RoomIds, ci \in Days, co \in Days,
       room_type \in RoomTypes, room_name \in RoomNames :
        (/\ Listed(r)
         /\ ValidRange(ci, co)
         /\ ~BookedOver(r, ci, co)
         /\ ~DatesBookedOver(r, ci, co))
        => LET chk == CreateBookingChecks(r, room_type, room_name, ci, co)
           IN  chk.accepted /\ chk.room.id = r
\* every such call that ran returned an ID and added one pending row naming r
C9_Adds ==
    (/\ CreateStep
     /\ Listed(last'.room)
     /\ ValidRange(last'.ci, last'.co)
     /\ ~BookedOver(last'.room, last'.ci, last'.co)
     /\ ~DatesBookedOver(last'.room, last'.ci, last'.co))
    => AddsOneRowFor(last'.room)
\* C9: for a room r listed in the hotel sheet and a range with check-in <
\* check-out and check-in >= today that no existing booking row and no Booked
\* Dates entry of r overlaps, create_booking returns a booking ID and adds
\* exactly one pending row, naming r.
C9_FreeRoomBooked == []C9_Accepts /\ [][C9_Adds]_vars
\* a room with an approved booking in its Booked Dates has just been booked
\* again for a range clear of it
C9_Witness ==
    /\ last.op = "create"
    /\ last.ret # None
    /\ last.ci < last.co
    /\ last.ci >= today
    /\ \E i \in BookingRowsOf(pending), k \in 1..Len(hotel) :
          /\ pending[i].id = last.ret
          /\ pending[i].room = last.room
          /\ pending[i].ci = last.ci
          /\ pending[i].co = last.co
          /\ hotel[k].id = last.room
          /\ hotel[k].booked # <<>>
          /\ \A e \in 1..Len(hotel[k].booked) : ~RangesOverlap(pending[i], hotel[k].booked[e])
          /\ \A t \in Slots \ {<<0, i>>} :
                SlotRow(t).room = last.room => ~RangesOverlap(pending[i], SlotRow(t))

\* C10: every booking row of every monthly sheet has a non-empty Booking ID and
\* a Status that is one of approved, confirmed, rejected.
C10_ArchiveRows ==
    \A m \in Months : \A i \in BookingRowsOf(archive[m]) :
        /\ archive[m][i].id # ""
        /\ archive[m][i].status \in {"approved", "confirmed", "rejected"}
\* a booking that had been rejected has just been approved into a monthly sheet
\* that already held a row
C10_Witness ==
    /\ last.op = "approve"
    /\ \E m \in Months :
          /\ Cardinality(BookingRowsOf(archive[m])) = 2
          /\ \E i \in BookingRowsOf(archive[m]) : archive[m][i].id = last.id

\* the k-th smallest member of a set of indices
Nth(keep, k) == CHOOSE i \in keep : Cardinality({j \in keep : j < i}) = k - 1

\* C11: a cell text of n well-formed entries "ci to co" joined by commas parses
\* to exactly those n ranges in order, and cleanup keeps, in order, exactly the
\* ranges whose check-out is not before today
C11_ParseAndCleanup ==
    /\ bdcell.step \in {"parsed", "cleaned"} =>
          \A rs \in SeqsUpTo(RangeSet, MaxRanges) :
             bdcell.text = FormatBookedDates(rs) => bdcell.ranges = rs
    /\ bdcell.step = "cleaned" =>
          LET keep == {i \in 1..Len(bdcell.ranges) : ~(bdcell.ranges[i].co < today)}
          IN  /\ Len(bdcell.kept) = Cardinality(keep)
              /\ \A k \in 1..Len(bdcell.kept) : bdcell.kept[k] = bdcell.ranges[Nth(keep, k)]

\* a two-entry text parsed to its two ranges; cleanup drops the one that ended
\* before today and keeps the one ending today
C11_Witness ==
    /\ bdcell.step = "cleaned"
    /\ \E rs \in SeqsUpTo(RangeSet, MaxRanges) :
          /\ Len(rs) = 2
          /\ bdcell.text = FormatBookedDates(rs)
          /\ bdcell.ranges = rs
          /\ rs[1].co < today
          /\ rs[2].co = today
          /\ bdcell.kept = <<rs[2]>>

\* the pending-sheet rows a tool call with this phone, room type and check-in
\* duplicates: booking rows with these three cells and status pending
PendingFor(phone, room_type, check_in) ==
    {i \in 1..Len(pending) :
        /\ pending[i].kind = "bk"
        /\ pending[i].phone = phone
        /\ pending[i].rtype = room_type
        /\ pending[i].ci = check_in
        /\ pending[i].status = "pending"}

\* whatever the other arguments, a call repeating a pending booking's phone,
\* room type and check-in is answered with that booking's ID
C12_Detects ==
    \A phone \in Phones, room_type \in RoomTypes, check_in \in Days, check_out \in Days,
       room_id \in ToolRoomIds :
       PendingFor(phone, room_type, check_in) # {} =>
          LET t == ToolChecks(phone, room_type, check_in, check_out, room_id)
          IN  /\ t.outcome = "duplicate"
              /\ \E i \in PendingFor(phone, room_type, check_in) : pending[i].id = t.id

C12_OneRow ==
    \A phone \in Phones, room_type \in RoomTypes, check_in \in Days :
       Cardinality(PendingFor(phone, room_type, check_in)) <= 1

\* the call answered as a duplicate writes nothing and names a pending booking
C12_Answers ==
    last'.op = "duplicate" =>
       /\ pending' = pending /\ archive' = archive /\ hotel' = hotel
       /\ \E i \in 1..Len(pending) :
             /\ pending[i].kind = "bk" /\ pending[i].status = "pending"
             /\ pending[i].id = last'.ret

\* C12: a second CreateBooking tool call with the phone, room type and check-in
\* of a booking that is still pending creates no row and answers with that
\* booking's ID; the pending sheet never holds two pending rows for one
\* (phone, room type, check-in)
C12_DuplicateShortCircuit == []C12_Detects /\ []C12_OneRow /\ [][C12_Answers]_vars

\* a repeated call was answered with the one pending booking's ID while there was
\* still room for another row
C12_Witness ==
    /\ last.op = "duplicate"
    /\ NumBookings = 1
    /\ \E i \in 1..Len(pending) :
          /\ pending[i].kind = "bk" /\ pending[i].status = "pending"
          /\ pending[i].id = last.ret

\* the search of update_booking_status finds no row for an ID that no row of the
\* pending sheet carries
C13_NotFound ==
    \A booking_id \in BookingIds \cup {""} :
       CountId(pending, booking_id) = 0 =>
          (IF Len(pending) < 2 THEN 0 ELSE FindBooking(pending, booking_id, 1, FALSE)) = 0

\* a call that found no row returned False and wrote to no sheet; a call that
\* wrote to a sheet was made for an ID that a pending-sheet row carried
C13_Frame ==
    /\ last'.op = "update" =>
          /\ last'.ret = "False"
          /\ pending' = pending /\ archive' = archive /\ archOrder' = archOrder
          /\ hotel' = hotel
    /\ (last'.op \in {"approve", "reject"}
        /\ (pending' # pending \/ archive' # archive \/ hotel' # hotel)) =>
          CountId(pending, last'.id) >= 1

\* C13: update_booking_status for a booking ID that is not in the Pending
\* Bookings sheet returns False and changes no sheet: no archive row added, no
\* pending row deleted or edited, no availability or Booked Dates change
C13_UnknownIdRefused == []C13_NotFound /\ [][C13_Frame]_vars

\* a call for an ID that none of the pending rows carries has just returned False
C13_Witness ==
    /\ last.op = "update" /\ last.ret = "False"
    /\ BookingRowsOf(pending) # {}
    /\ \E booking_id \in BookingIds : CountId(pending, booking_id) = 0

\* C14: after an operation that writes to a sheet (pending-row insertion,
\* monthly-sheet insertion, pending-row deletion, status update, availability
\* change, Booked Dates update) the cache holds no entry for the written sheet
C14_WriteInvalidates ==
    [][/\ pending' # pending => ~cache'.pending.valid
       /\ hotel' # hotel => ~cache'.hotel.valid
       /\ \A m \in Months : archive'[m] # archive[m] => ~cache'.arch[m].valid]_vars

\* the answers to the requests made so far
Seen == SubSeq(wa.answers, 1, wa.posts)

\* C15: send_whatsapp_message makes at most 3 HTTP attempts; it stops at the
\* first 200 (returning the response) and at the first 401 (returning None);
\* after a 429 or a timeout it tries again while attempts remain; whatever the
\* answers, it returns None when no attempt got a 200
C15_SendContract ==
    /\ wa.posts <= 3
    /\ \A i \in 1..(wa.posts - 1) : Seen[i] \notin {"200", "401"}
    /\ wa.result \in {"idle", "called", "json", "None"}
    /\ wa.result = "json" <=> (wa.posts > 0 /\ Seen[wa.posts] = "200")
    /\ (wa.result = "None" /\ wa.valid /\ wa.posts < 3) => Seen[wa.posts] = "401"

\* C16: after any sequence of add_message calls the history holds at most 10
\* messages, and they are the most recently added ones in the order of the calls.
C16_HistoryIsLastTen ==
    /\ Len(sess.history) <= 10
    /\ Len(sess.history) = (IF Len(sess.added) < 10 THEN Len(sess.added) ELSE 10)
    /\ \A i \in 1..Len(sess.history) :
          sess.history[i] = sess.added[Len(sess.added) - Len(sess.history) + i]

\* more than ten messages were added and the two oldest of them differ
C16_Witness ==
    /\ Len(sess.added) > 10
    /\ sess.added[1] # sess.added[Len(sess.added) - 9]
    /\ Len(sess.history) = 10

\* room r passes the row scan and then the Booked Dates check, read through cache c
PassesBothChecks(c, r, ci, co) ==
    LET byRows == CheckRoomAvailabilityByDate(c, r, ci, co)
        byDates == CheckRoomAvailabilityFromBookedDatesColumn(byRows.cache, r, ci, co)
    IN  byRows.ok /\ byDates.ok
\* the hotel sheet lists r as a room that a search for room_type matches
OfType(r, room_type) ==
    \E k \in 1..Len(hotel) :
        hotel[k].id = r /\ TypeMatches(SearchType(room_type), hotel[k].name)

\* C17: when the requested room fails an availability check and create_booking
\* books a substitute, the room in the new row is of the requested type, passes
\* the row scan and the Booked Dates check for the requested range, and is not
\* the requested room.  Stated for calls with a valid range that returned a
\* fresh ID.
C17_SubstituteIsAvailable ==
    [][(/\ CreateStep
        /\ ValidRange(last'.ci, last'.co)
        /\ last'.ret \notin UsedIds
        /\ ~PassesBothChecks(cache, last'.room, last'.ci, last'.co))
       => \A i \in CreatedRows :
             LET row == BkSeq(pending')[i]
             IN  /\ row.room # last'.room
                 /\ OfType(row.room, row.rtype)
                 /\ PassesBothChecks(cache, row.room, last'.ci, last'.co)]_vars

\* the month header rows of the pending sheet
MonthRowsOf(rows) == {i \in 1..Len(rows) : rows[i].kind = "month"}
\* the last month header above row i (0: none)
HeaderAbove(rows, i) ==
    LET above == {j \in MonthRowsOf(rows) : j < i}
    IN  IF above = {} THEN 0 ELSE CHOOSE j \in above : \A k \in above : k <= j
\* nothing but create_booking has written to the spreadsheet
OnlyInsertions ==
    /\ archOrder = <<>>
    /\ \A i \in BookingRowsOf(pending) : pending[i].status = "pending" /\ pending[i].notes = ""

\* C18: after any sequence of create_booking insertions into the pending sheet,
\* the month headers stand newest month first, and every booking row (with a
\* check-in that parses) lies below the header of its own check-in month and
\* above the next month header.
C18_MonthSections ==
    OnlyInsertions
    => /\ \A i \in MonthRowsOf(pending), j \in MonthRowsOf(pending) :
             i < j => pending[i].m > pending[j].m
       /\ \A i \in BookingRowsOf(pending) :
             Parses(pending[i].ci)
             => /\ HeaderAbove(pending, i) # 0
                /\ pending[HeaderAbove(pending, i)].m = MonthOf(pending[i].ci)

\* the approved bookings: the booking rows of the monthly sheets
ApprovedSlots == {s \in Slots : s[1] > 0}

\* C19: once a booking for room r with range [a,b) is approved, and while its
\* check-out has not passed, check_room_availability_from_booked_dates_column
\* reports r unavailable for every range [x,y), x < y, that overlaps [a,b),
\* whatever the manager's cache holds.
C19_ApprovedRangeBlocks ==
    \A s \in ApprovedSlots :
        (Parses(SlotRow(s).ci) /\ Parses(SlotRow(s).co) /\ SlotRow(s).co >= today)
        => \A x \in Days, y \in Days :
              (x < y /\ RangesOverlap([ci |-> x, co |-> y], SlotRow(s)))
              => ~CheckRoomAvailabilityFromBookedDatesColumn(
                     cache, SlotRow(s).room, x, y).ok

\* an approval has just been made for a listed room and a range that is still
\* ahead, the monthly sheet it went to is cached, and a request overlapping the
\* range passes every test of the column check but the Booked Dates one
C19_Witness ==
    /\ last.op = "approve"
    /\ \E s \in ApprovedSlots :
          /\ SlotRow(s).id = last.id
          /\ Listed(SlotRow(s).room)
          /\ SlotRow(s).ci < SlotRow(s).co
          /\ SlotRow(s).ci >= today
          /\ cache.arch[s[1] - 1].valid
          /\ DatesBookedOver(SlotRow(s).room, SlotRow(s).ci, SlotRow(s).co)

\* both threads made their checks before either wrote a row, for the same listed
\* room and for valid ranges that overlap
Raced ==
    /\ \A t \in Threads :
          /\ req[t].pc # "idle"
          /\ req[t].early
          /\ Listed(req[t].room)
          /\ ValidRange(req[t].ci, req[t].co)
    /\ \A t \in Threads, u \in Threads :
          /\ req[t].room = req[u].room
          /\ t # u => RangesOverlap(req[t], req[u])
\* rows i and j of the pending sheet are the two requests' rows
RacedRows(i, j) ==
    /\ i # j
    /\ \A k \in {i, j} : pending[k].room = req[1].room /\ pending[k].status = "pending"
    /\ pending[i].id = req[1].ret /\ pending[i].ci = req[1].ci /\ pending[i].co = req[1].co
    /\ pending[j].id = req[2].ret /\ pending[j].ci = req[2].ci /\ pending[j].co = req[2].co

\* C20: two create_booking calls for the same room with overlapping ranges, both
\* making their availability checks before either inserts its row, both find
\* the room itself available, both return a booking ID, and the pending sheet
\* then holds their two overlapping rows for that room.
C20_RaceDoubleBooks ==
    Raced
    => /\ \A t \in Threads : req[t].chk.ok /\ req[t].chk.room.id = req[t].room
       /\ \A t \in Threads : req[t].pc = "done" => (req[t].ret # None /\ req[t].used.ok)
       /\ (\A t \in Threads : req[t].pc = "done")
          => \E i \in BookingRowsOf(pending), j \in BookingRowsOf(pending) : RacedRows(i, j)

\* both calls have returned and the room has two overlapping pending rows
C20_Witness ==
    /\ Raced
    /\ \A t \in Threads : req[t].pc = "done"
    /\ \E i \in BookingRowsOf(pending), j \in BookingRowsOf(pending) :
          /\ RacedRows(i, j)
          /\ RangesOverlap(pending[i], pending[j])

\* the Booking IDs on the pending sheet
PendingIds == {pending[i].id : i \in BookingRowsOf(pending)}
\* this step is the writing half of an approval that had found its row
ApproveWriteStep == appr.pc = "found" /\ appr'.pc = "idle"

\* C21: whatever insertion or approval ran since the approval found its row,
\* the row the approval deletes from the pending sheet is the approved
\* booking's: one row with its ID goes and every other booking's row stays.
\* Stated for approvals whose booking is still on the pending sheet, and for
\* pending sheets on which no two rows carry the same Booking ID and every row
\* has check-in < check-out.
C21_DeletesApprovedRow ==
    [][(/\ ApproveWriteStep
        /\ CountId(pending, appr.id) = 1
        /\ \A i \in BookingRowsOf(pending) : pending[i].ci < pending[i].co
        /\ \A i \in BookingRowsOf(pending), j \in BookingRowsOf(pending) :
              i # j => pending[i].id # pending[j].id)
       => /\ CountId(pending', appr.id) = CountId(pending, appr.id) - 1
          /\ \A id \in PendingIds \ {appr.id} :
                CountId(pending', id) = CountId(pending, id)]_vars

\* this step is an update_booking_status call for ID last'.id that returned False
FailedStep == last'.op = "update" /\ last'.ret = "False" /\ last' # last

\* C22: an approval that returns False has changed no booking row of any sheet
\* and no room: the booking is not in a monthly sheet and on the pending sheet
\* at once, so a second try cannot add a second monthly row for the ID.
\* Stated for pending sheets whose rows all have check-in < check-out.
C22_FailedApprovalWritesNothing ==
    [][(FailedStep /\ \A i \in BookingRowsOf(pending) : pending[i].ci < pending[i].co)
       => /\ pending' = pending
          /\ hotel' = hotel
          /\ \A m \in Months : BkSeq(archive'[m]) = BkSeq(archive[m])]_vars

\* the booking rows of room r that overlap [ci, co)
OverlappingSlots(r, ci, co) ==
    {s \in Slots : SlotRow(s).room = r /\ SlotRow(s).ci < SlotRow(s).co
                   /\ RangesOverlap([ci |-> ci, co |-> co], SlotRow(s))}
\* r is listed, [ci, co) is valid, and all that overlaps it for r are rejected
\* rows of the pending sheet, of which there is one
OnlyRejectedInTheWay(r, ci, co) ==
    /\ Listed(r)
    /\ ValidRange(ci, co)
    /\ ~DatesBookedOver(r, ci, co)
    /\ OverlappingSlots(r, ci, co) # {}
    /\ \A s \in OverlappingSlots(r, ci, co) : s[1] = 0 /\ SlotRow(s).status = "rejected"

\* C23: a rejected booking does not block its room: a create_booking request
\* for room r with a valid range that only rejected bookings of r overlap is
\* accepted, and for r itself.
C23_RejectedDoesNotBlock ==
    \A r \in RoomIds, ci \in Days, co \in Days, room_type \in RoomTypes,
       room_name \in RoomNames :
        OnlyRejectedInTheWay(r, ci, co)
        => LET chk == CreateBookingChecks(r, room_type, room_name, ci, co)
           IN  chk.accepted /\ chk.room.id = r

\* C24: create_booking never returns a Booking ID that a booking on the pending
\* sheet or a monthly sheet already carries.
C24_FreshBookingId ==
    [][CreateStep => last'.ret \notin UsedIds]_vars

\* this step is a run of the sweep that changed the hotel sheet
SweepChangesStep == last'.op = "sweep" /\ hotel' # hotel
\* a monthly sheet holds an approved or confirmed booking of room r whose
\* check-out is before today, or is today with the hour at or past 11
HasCheckedOut(r) ==
    \E s \in ApprovedSlots :
        /\ SlotRow(s).room = r
        /\ SlotRow(s).status \in {"approved", "confirmed"}
        /\ \/ SlotRow(s).co < today
           \/ SlotRow(s).co = today /\ current_hour >= 11

\* C25: a run of the sweep changes nothing on the hotel sheet but availability
\* cells; a cell it changes becomes 'Yes', and the room is one that a monthly
\* sheet's approved or confirmed booking names with a check-out before today,
\* or today at or past 11.
C25_SweepReleasesOnlyCheckedOut ==
    [][SweepChangesStep
       => /\ Len(hotel') = Len(hotel)
          /\ \A k \in 1..Len(hotel) :
                /\ hotel'[k] = [hotel[k] EXCEPT !.avail = hotel'[k].avail]
                /\ hotel'[k].avail # hotel[k].avail
                   => (hotel'[k].avail = Flag("Yes") /\ HasCheckedOut(hotel[k].id))]_vars

\* the sweep has just run and released R2, whose counter an approval had lowered;
\* one booking checked out on an earlier day and one today
C25_Witness ==
    /\ last.op = "sweep"
    /\ \E k \in 1..Len(hotel) : hotel[k].id = "R2" /\ hotel[k].avail = Flag("Yes")
    /\ HasCheckedOut("R2")
    /\ \E s \in ApprovedSlots : SlotRow(s).co < today
    /\ \E s \in ApprovedSlots : SlotRow(s).co = today /\ current_hour >= 11

\* an approved or confirmed booking of room r is in stay today
InStay(r) ==
    \E s \in ApprovedSlots :
        /\ SlotRow(s).room = r
        /\ SlotRow(s).status \in {"approved", "confirmed"}
        /\ SlotRow(s).ci <= today
        /\ today < SlotRow(s).co

\* no two booking rows of one room have overlapping ranges
NoRoomOverlap ==
    \A s \in Slots, t \in Slots :
        (s # t /\ SlotRow(s).room = SlotRow(t).room) => ~RangesOverlap(SlotRow(s), SlotRow(t))

\* C26: no run of the sweep changes the availability of a room that has an
\* approved or confirmed booking in stay (check-in <= today < check-out).
\* Stated for sheets on which no two bookings of a room overlap.
C26_SweepSparesRoomsInStay ==
    [][(SweepChangesStep /\ NoRoomOverlap)
       => \A k \in 1..Len(hotel) :
             (k <= Len(hotel') /\ hotel'[k].avail # hotel[k].avail) => ~InStay(hotel[k].id)]_vars

\* the availability cell of the first hotel row for room r
AvailOf(rows, r) == rows[FindRoom(rows, r, 1)].avail
\* no counter on the hotel sheet is below zero
C27_NeverNegative ==
    \A k \in 1..Len(hotel) : hotel[k].avail.isNum => hotel[k].avail.n >= 0
\* what an approval that returned True did to the room's availability cell
C27_Effect ==
    ApproveStep
    => LET row == pending[FindBooking(pending, last'.id, 1, FALSE)]
       IN  Listed(row.room)
           => LET was == AvailOf(hotel, row.room)
                  now == AvailOf(hotel', row.room)
              IN  /\ (~was.isNum /\ was.s \in {"Yes", "Available", "True"})
                     => now = Flag("No")
                  /\ was.isNum
                     => now = Num(IF was.n - row.n > 0 THEN was.n - row.n ELSE 0)
\* C27: a successful approval of a booking for room r with room count k turns
\* r's availability from a yes-like flag into 'No', or from a number n into
\* max(0, n - k); no counter is ever negative.
C27_ApprovalDecrements == []C27_NeverNegative /\ [][C27_Effect]_vars

\* a three-room booking of R2 has just been approved and R2's counter, which
\* stood below three, is at zero
C27_Witness ==
    /\ last.op = "approve"
    /\ AvailOf(hotel, "R2") = Num(0)
    /\ \A k \in 1..Len(hotel) : hotel[k].id = "R1" => hotel[k].avail = Flag("Yes")
    /\ BookingRowsOf(pending) = {}
    /\ Cardinality(ApprovedSlots) = 1
    /\ \E s \in ApprovedSlots :
          SlotRow(s).id = last.id /\ SlotRow(s).room = "R2" /\ SlotRow(s).n = 3

\* the approved bookings of room r
ApprovedOf(r) == {s \in ApprovedSlots : SlotRow(s).room = r}

\* C28: the sweep gives back what the approval took: a cell it changes keeps
\* its form (number or flag); a flag becomes 'Yes'; and the counter of a room
\* whose only approved booking is for k rooms goes up by k.
C28_SweepRestores ==
    [][SweepChangesStep
       => \A i \in 1..Len(hotel) :
             (i <= Len(hotel') /\ hotel'[i].avail # hotel[i].avail)
             => /\ hotel'[i].avail.isNum = hotel[i].avail.isNum
                /\ ~hotel[i].avail.isNum => hotel'[i].avail = Flag("Yes")
                /\ \A s \in ApprovedOf(hotel[i].id) :
                      (hotel[i].avail.isNum /\ ApprovedOf(hotel[i].id) = {s})
                      => hotel'[i].avail = Num(hotel[i].avail.n + SlotRow(s).n)]_vars


\* ------------------------------------------------------------------- C29
\* the texts of the send calls made for message m, in the order of the calls
CallsFor(m) ==
    LET calls == SelectSeq(wk.sends, LAMBDA c : c.to = m)
    IN  [i \in 1..Len(calls) |-> calls[i].text]

\* the worker is through with m
Finished(m) ==
    /\ \E i \in 1..Len(wk.taken) : wk.taken[i] = m
    /\ wk.pc \in {"get", "stopped"} \/ wk.data # m

\* the messages taken so far are the first ones put, in the order of the puts,
\* and the queue holds the others
TakenInOrder ==
    /\ Len(wk.taken) <= Len(wk.put)
    /\ wk.taken = SubSeq(wk.put, 1, Len(wk.taken))
    /\ SelectSeq(wk.queue, LAMBDA d : d # Sentinel)
          = SubSeq(wk.put, Len(wk.taken) + 1, Len(wk.put))

\* a finished message got the response when the agent answered (and the
\* apology after it only when sending the response raised), the apology alone
\* when the agent raised; and the calls follow the order of the messages
AnsweredOrApologised ==
    /\ \A m \in Messages :
          Finished(m) =>
             IF m \in wk.raised
             THEN CallsFor(m) = <<"apology">>
             ELSE \/ CallsFor(m) = <<"response">>
                  \/ CallsFor(m) = <<"response", "apology">>
    /\ \A i, j \in 1..Len(wk.sends) :
          i < j => \E a, b \in 1..Len(wk.taken) :
                      a <= b /\ wk.taken[a] = wk.sends[i].to /\ wk.taken[b] = wk.sends[j].to

\* the worker leaves its loop only by taking the shutdown signal from the queue
StopsOnlyOnSignal ==
    wk'.pc = "stopped" /\ wk.pc # "stopped"
       => wk.pc = "get" /\ wk.queue # <<>> /\ Head(wk.queue) = Sentinel

\* m is on the queue with no shutdown signal anywhere on the queue
Waiting(m) ==
    /\ \E i \in 1..Len(wk.queue) : wk.queue[i] = m
    /\ \A i \in 1..Len(wk.queue) : wk.queue[i] # Sentinel
    /\ wk.pc # "stopped"

\* C29: every queued message is taken once, in the order of the puts, by the
\* worker; each one gets the agent's response or, when the agent raised, the
\* apology; no exception ends the worker, which goes on to the next message
C29_WorkerDrainsQueue ==
    /\ [](TakenInOrder /\ AnsweredOrApologised)
    /\ [][StopsOnlyOnSignal]_vars
    /\ \A m \in Messages : Waiting(m) ~> Finished(m)

\* two messages are through: the agent raised on the first, the apology call
\* raised too, and the second still got its response
C29_Witness ==
    /\ Len(wk.taken) >= 2
    /\ Finished(wk.taken[1])
    /\ Finished(wk.taken[2])
    /\ wk.taken[1] \in wk.raised
    /\ \E i \in 1..Len(wk.sends) :
          wk.sends[i] = SendCall(wk.taken[1], "apology", "raises")
    /\ CallsFor(wk.taken[2]) = <<"response">>


\* ------------------------------------------------------------------- C30
\* the background check ran (it was not put off by the five-minute interval)
CheckStep == vs'.last_vectorstore_check # vs.last_vectorstore_check

\* a write invalidated a cache entry less than five minutes ago
InvalidatedLately == vs.written # Never /\ vs.now - vs.written < RecentInvalidation

\* C30: a refresh check that runs within five minutes of a write's cache
\* invalidation answers True, and the search index is refreshed
C30_InvalidationTriggersRefresh ==
    [][CheckStep /\ InvalidatedLately => vs'.result = "refreshed"]_vars


\* ------------------------------------------------------------------- C36
\* the booking rows of the sheet stand newest check-in first
NewestFirst(rows) ==
    \A i, j \in BookingRowsOf(rows) : i < j => rows[i].ci >= rows[j].ci

\* C36: after any sequence of approvals, the booking rows of every monthly
\* archive sheet are ordered by check-in date, newest first
C36_ArchiveNewestFirst == \A m \in Months : NewestFirst(archive[m])

\* a monthly sheet holds three approved rows of two different check-in dates
C36_Witness ==
    \E m \in Months :
       /\ Cardinality(BookingRowsOf(archive[m])) >= 3
       /\ \E i, j \in BookingRowsOf(archive[m]) : archive[m][i].ci # archive[m][j].ci

\* ------------------------------------------------------------------- C37
\* rows i and j lie in the same month section of the pending sheet
SameSection(i, j) == HeaderAbove(pending, i) = HeaderAbove(pending, j)

RequestInOrder ==
    /\ Parses(last'.ci) /\ Parses(last'.co)
    /\ last'.ci < last'.co
    /\ last'.ci >= today

\* some row of the sheet with two parsable dates stands in the request's way
ParsableRowInTheWay(rows, anyStatus) ==
    \E i \in BookingRowsOf(rows) :
       /\ rows[i].room = last'.room
       /\ anyStatus \/ rows[i].status \in ActiveStatuses
       /\ Parses(rows[i].ci) /\ Parses(rows[i].co)
       /\ last'.ci < rows[i].co /\ last'.co > rows[i].ci

\* some entry of the room's Booked Dates cell with two parsable dates, its
\* check-out not passed, stands in the request's way
ParsableEntryInTheWay ==
    \E k \in 1..Len(hotel) :
       /\ hotel[k].id = last'.room
       /\ \E i \in 1..Len(hotel[k].booked) :
             LET e == hotel[k].booked[i]
             IN  /\ Parses(e.ci) /\ Parses(e.co)
                 /\ e.co >= today
                 /\ last'.ci < e.co /\ last'.co > e.ci

\* C39: a row or Booked Dates entry whose dates cannot be parsed never causes
\* a conflict, both checks deciding on the other entries alone; a request whose
\* own dates cannot be parsed is refused
C39_UnparsableSkipped ==
    [][/\ last'.op = "check_rows"
          => (last'.ret = "True"
                <=> /\ RequestInOrder
                    /\ ~ParsableRowInTheWay(pending, TRUE)
                    /\ \A m \in Months : ~ParsableRowInTheWay(archive[m], FALSE))
       /\ last'.op = "check_column"
          => (last'.ret = "True" <=> RequestInOrder /\ ~ParsableEntryInTheWay)]_vars

\* a night is found free by the row scan although a pending row holds a
\* text in its check-in cell and overlaps it by its check-out cell
C39_Witness ==
    /\ last.op = "check_rows"
    /\ last.ret = "True"
    /\ \E i \in BookingRowsOf(pending) :
          /\ pending[i].room = last.room
          /\ ~Parses(pending[i].ci)
          /\ last.ci < pending[i].co


\* ------------------------------------------------------------------- C40
\* a call of _rate_limit returned, letting its request through
PassStep == Len(rl'.passed) > 0 /\ rl'.passed # rl.passed

\* the request let through now comes min_request_interval after the last one
SpacedOut ==
    rl.passed # <<>> => rl'.now - rl.passed[Len(rl.passed)] >= min_request_interval

\* the window ending with the latest request holds at most the ceiling
UnderCeiling == Len(rl.passed) <= max_requests_per_minute

\* a call that found the ceiling reached sleeps, and returns when the oldest
\* tracked request is a full window back
SleptWindowOut ==
    Len(SelectSeq(rl.request_times, LAMBDA t : rl.now - t < RateWindow))
          >= max_requests_per_minute
       => /\ rl'.slept
          /\ rl'.now - Oldest(rl.request_times) >= RateWindow

\* C40: for calls made one after another from one thread, two successive
\* requests let through are at least 1.2 seconds apart, no 60-second window
\* holds more than 50 of them, and a call that finds 50 tracked requests
\* sleeps until the window has cleared
C40_RateLimited ==
    /\ []UnderCeiling
    /\ [][PassStep => SpacedOut /\ SleptWindowOut]_vars

\* the parts of C40 other than the spacing
C40_CeilingOnly ==
    /\ []UnderCeiling
    /\ [][PassStep => SleptWindowOut]_vars


\* ------------------------------------------------------------------- C35
\* the Booked Dates cell of hotel row k holds the range [ci, co), and its
\* check-out date has passed
ExpiredEntry(k, ci, co) ==
    /\ co < today
    /\ \E i \in 1..Len(hotel[k].booked) : hotel[k].booked[i] = [ci |-> ci, co |-> co]

\* C35: every Booked Dates range whose check-out date has passed is in the end
\* removed from its room's cell by the periodic background work, for every
\* room, whether or not another approval touches the room
C35_ExpiredRangesRemoved ==
    \A k \in 1..2 : \A ci \in Days : \A co \in Days :
       ExpiredEntry(k, ci, co) ~> ~ExpiredEntry(k, ci, co)


\* ------------------------------------------------------------------- C31
\* the customer of thread t's message
Sender(t) == [name |-> SenderName(t), phone |-> SenderPhone(t)]

\* C31: the customer phone and name used for a message, in the agent input
\* and in the CreateBooking tool, are those of the message's sender, whatever
\* other messages are in flight
C31_OwnCustomer ==
    \A t \in Threads :
       /\ ag.turn[t].pc \in {"invoked", "done"} => ag.turn[t].input = Sender(t)
       /\ ag.turn[t].pc = "done" => ag.turn[t].tool = Sender(t)


\* ------------------------------------------------------------------- C32
\* no add_message call is under way
NoCallRunning == \A t \in Threads : sm.call[t].pc = "idle"

\* the last ten messages appended, in the order of their appends
LastAppended == LastN(sm.appended, MaxHistory)

\* C32: after add_message calls for one phone number that ran side by side,
\* every message appended is in the history, up to the last-ten bound
C32_NoMessageLost ==
    NoCallRunning =>
       \A i \in 1..Len(LastAppended) :
          \E j \in 1..Len(sm.sessions["P1"].history) :
             sm.sessions["P1"].history[j] = LastAppended[i]

\* ------------------------------------------------------------------- C33
\* C33: get_session returns no session that has been idle for more than the
\* 48 hours: a message arriving after them starts from an empty history,
\* whether the hourly sweep has run or not
C33_ExpiredSessionNotReturned == sm.ret.idle > ttl => sm.ret.history = <<>>

\* ------------------------------------------------------------------- C34
\* C34: after every operation that changes a session (get_session creating
\* one or touching last_active, add_message, update_context, delete_session,
\* the sweep) the session file equals the sessions in memory
C34_FileEqualsMemory ==
    [][sm'.sessions # sm.sessions => sm'.file = sm'.sessions]_vars


\* ------------------------------------------------------------------- C38
\* the check-out argument is neither a date nor a night count, and the
\* conversation holds no date besides the check-in date
CheckOutUnknown ==
    /\ tl.called
    /\ tl.check_out_str.kind \in {"night", "text"}
    /\ tl.all_dates \subseteq {tl.check_in}

\* C38: a tool call that cannot determine the check-out date asks for the
\* date and fills in no check-out date of its own
C38_AsksForCheckOut ==
    CheckOutUnknown => tl.check_out = BadDate /\ tl.answer = "provide date"

====
